---- MODULE Spec2Model ----
(***************************************************************************)
(* Invoice-Assistant: the document reconciliation engine of the server.    *)
(*   PairingService   (pairDocuments)      server/src/services             *)
(*   SortingService   (sortDocuments)                                      *)
(*   AnomalyDetector  (detectAnomalies)                                    *)
(*   AIService        (recognizeDocument, retryWithBackoff)                *)
(*   BatchProcessor   (processBatch)                                       *)
(*                                                                         *)
(* Conventions of the model                                                *)
(*   - an amount is given as an integer number of thousandths of a         *)
(*     currency unit (0.01 is 10) and stands for the double nearest to it; *)
(*     toFixed(2) is a rounding to a multiple of 10;                       *)
(*   - a text (vendor, description, platform) is a sequence of characters, *)
(*     each character a one-token string; "" / undefined is << >>;         *)
(*   - a date string is the record [fmt, y, m, d]: fmt "md" is MM/DD,      *)
(*     "dash" is YYYY-MM-DD, "slash" is YYYY/MM/DD and "text" is any other *)
(*     string (d numbers the distinct texts, 0 is the empty string);       *)
(*   - an absent optional string field (invoiceType, invoiceNumber) is ""; *)
(*   - a Date is the number of days since 1970-01-01 of its local          *)
(*     midnight (no daylight-saving shift is modelled).                    *)
(***************************************************************************)
EXTENDS Integers, Sequences, FiniteSets, TLC

VARIABLES
    pc,          \* position of the running operation
    apiConfig,   \* POST /batch-process: req.body.apiConfig
    selectedForPairing, \* client, DocumentList: << >> (null) or <<id>>
    files,       \* processBatch: the uploaded files, named 1..n
    fileIdx,     \* processBatch: loop variable i (1-based)
    pages,       \* processFile: base64Images.length, 0 outside it
    pageIdx,     \* processFile: loop variable i (1-based), 0 outside it
    pageDocs,    \* processFile: local array documents
    recognizedPages, \* processFile: the pages recognizeDocument was called for, of the file taken last
    retryCount,  \* retryWithBackoff: parameter retryCount (0 outside a call)
    delays,      \* the delays waited by retryWithBackoff during the current call
    attempts,    \* number of calls of operation() during the current call
    inFlight,    \* recognition calls awaiting their response
    documents,   \* processBatch: documents / the input of the pure services
    errors,      \* processBatch: errors
    progress,    \* stages handed to the progress callback, in order
    calls,       \* how often pairDocuments, sortDocuments, detectAnomalies ran
    pairs,       \* PairingResult
    sorting,     \* SortingResult
    warnings,    \* Warning[]
    outcome      \* "none", "returned" or "thrown"

vars == <<pc, apiConfig, selectedForPairing, recognizedPages, files, fileIdx, pages, pageIdx, pageDocs, retryCount, delays, attempts,
          inFlight, documents, errors, progress, calls, pairs, sorting,
          warnings, outcome>>

-----------------------------------------------------------------------------
(* Generic helpers *)

Range(s) == {s[k] : k \in 1..Len(s)}

Abs(x) == IF x < 0 THEN -x ELSE x

\* Array.prototype.sort with a comparator that is a total preorder, cmp[j, k]
\* being the comparator applied to s[j] and s[k]: the sort is stable, so an
\* element goes after those that compare smaller and after those that compare
\* equal and stood before it
StableSort(s, cmp) ==
    LET pos(k) == 1 + Cardinality({j \in 1..Len(s) :
                         \/ cmp[j, k] < 0
                         \/ (cmp[j, k] = 0 /\ j < k)})
    IN  [p \in 1..Len(s) |-> s[CHOOSE k \in 1..Len(s) : pos(k) = p]]

\* the distinct values of a sequence in the order of their first occurrence
\* (the key order of a Map filled in that order)
RECURSIVE DistinctInOrder(_)
DistinctInOrder(s) ==
    IF s = << >> THEN << >>
    ELSE LET front == DistinctInOrder(SubSeq(s, 1, Len(s) - 1))
             last == s[Len(s)]
         IN  IF last \in Range(front) THEN front ELSE Append(front, last)

\* Array.prototype.find: the first element satisfying the test, as a
\* sequence of length 0 (undefined) or 1
FindById(docs, id) ==
    LET hits == SelectSeq(docs, LAMBDA d : d.id = id)
    IN  IF hits = << >> THEN << >> ELSE <<Head(hits)>>

\* String.prototype.includes on texts
Includes(text, key) ==
    \E k \in 0..(Len(text) - Len(key)) :
        \A j \in 1..Len(key) : text[k + j] = key[j]

\* String.prototype.toLowerCase, character by character
LowerChar(c) ==
    CASE c = "R" -> "r"
      [] c = "D" -> "d"
      [] OTHER -> c

ToLowerCase(text) == [k \in 1..Len(text) |-> LowerChar(text[k])]

-----------------------------------------------------------------------------
(* Dates: parseDate of PairingService, SortingService and AnomalyDetector *)

CurrentYear == 2026

\* days since 1970-01-01 of the proleptic Gregorian date y-m-d, m in 1..12
DaysFromCivil(y, m, d) ==
    LET y1  == IF m <= 2 THEN y - 1 ELSE y
        era == y1 \div 400
        yoe == y1 - era * 400
        mp  == (m + 9) % 12
        doy == (153 * mp + 2) \div 5 + d - 1
        doe == yoe * 365 + yoe \div 4 - yoe \div 100 + doy
    IN  era * 146097 + doe - 719468

\* new Date(year, monthIndex, day): years 0..99 mean 1900..1999, the month
\* index and the day overflow into the neighbouring months and years
JSDate(year, monthIndex, day) ==
    LET yy == IF year >= 0 /\ year <= 99 THEN 1900 + year ELSE year
        y2 == yy + (monthIndex \div 12)
        m2 == (monthIndex % 12) + 1
    IN  DaysFromCivil(y2, m2, 1) + (day - 1)

NullDate == [ok |-> FALSE, t |-> 0]

parseDate(dateStr) ==
    IF dateStr.fmt = "md"
    THEN [ok |-> TRUE, t |-> JSDate(CurrentYear, dateStr.m - 1, dateStr.d)]
    ELSE IF dateStr.fmt = "dash"
    THEN [ok |-> TRUE, t |-> JSDate(dateStr.y, dateStr.m - 1, dateStr.d)]
    ELSE IF dateStr.fmt = "slash"
    THEN [ok |-> TRUE, t |-> JSDate(dateStr.y, dateStr.m - 1, dateStr.d)]
    ELSE NullDate

MD(m, d)       == [fmt |-> "md", y |-> 0, m |-> m, d |-> d]
Dash(y, m, d)  == [fmt |-> "dash", y |-> y, m |-> m, d |-> d]
Slash(y, m, d) == [fmt |-> "slash", y |-> y, m |-> m, d |-> d]
Text(k)        == [fmt |-> "text", y |-> 0, m |-> 0, d |-> k]
EmptyDate      == Text(0)

-----------------------------------------------------------------------------
(* Records (DocumentData) *)

Doc(id, fileName, documentType, date, amount, invoiceType, invoiceNumber, vendor, description, platform, confidence, status, errorMessage) ==
    [id |-> id, fileName |-> fileName, documentType |-> documentType,
     date |-> date, amount |-> amount, invoiceType |-> invoiceType,
     invoiceNumber |-> invoiceNumber, vendor |-> vendor,
     description |-> description, platform |-> platform,
     confidence |-> confidence, status |-> status,
     errorMessage |-> errorMessage]

Yuan(n) == n * 1000

-----------------------------------------------------------------------------
(* PairingService *)

Tolerance == 10

\* 2^k mod n
RECURSIVE PowMod(_, _)
PowMod(k, n) == IF k = 0 THEN 1 % n ELSE (2 * PowMod(k - 1, n)) % n

\* the double nearest to c / 1000 (0 < c < 8192000) is m / 2^k with m in
\* 2^52 .. 2^53: k is 52 minus the binary exponent of c / 1000
DoubleShift(c) ==
    CHOOSE k \in 40..62 :
        IF k <= 52
        THEN 1000 * 2 ^ (52 - k) <= c /\ c < 2000 * 2 ^ (52 - k)
        ELSE 1000 <= c * 2 ^ (k - 52) /\ c * 2 ^ (k - 52) < 2000

\* (m / 2^k - c / 1000) * 1000 * 2^k for that double: the remainder of
\* c * 2^k by 1000, rounded to nearest, a tie to the even m
RoundingError(c) ==
    LET r == ((c % 2000) * PowMod(DoubleShift(c), 2000)) % 2000
        rem == r % 1000
    IN  IF rem < 500 THEN 0 - rem
        ELSE IF rem > 500 THEN 1000 - rem
        ELSE IF r >= 1000 THEN 500 ELSE 0 - 500

\* the same error in units of 1 / (1000 * 2^kU); the double of 0 is exact
ScaledError(c, kU) == IF c = 0 THEN 0 ELSE RoundingError(c) * 2 ^ (kU - DoubleShift(c))

\* Math.abs(amount1 - amount2) <= 0.01 in double arithmetic when the decimal
\* amounts lo and hi are exactly 0.01 apart: the difference of the two doubles
\* exceeds the double 0.01 by x units; it is rounded to a multiple of 2^-59,
\* 0.01 being the odd multiple 5764607523034235 of 2^-59
DoubleDiffWithinTolerance(lo, hi) ==
    LET kU == IF lo = 0 THEN 59
              ELSE IF DoubleShift(lo) > 59 THEN DoubleShift(lo) ELSE 59
        x == ScaledError(hi, kU) - ScaledError(lo, kU) - ScaledError(Tolerance, kU)
    IN  x <= 0 \/ 2 * x < 1000 * 2 ^ (kU - 59)

\* diff <= tolerance: the rounding of the doubles is far smaller than a
\* thousandth, so it decides only when the decimals are exactly 0.01 apart
checkAmountMatch(amount1, amount2) ==
    LET diff == Abs(amount1 - amount2)
        lo == IF amount1 < amount2 THEN amount1 ELSE amount2
    IN  IF diff = Tolerance THEN DoubleDiffWithinTolerance(lo, lo + Tolerance)
        ELSE diff < Tolerance

\* the score of checkDateProximity (0 when it reports matched: false)
checkDateProximity(date1, date2) ==
    LET d1 == parseDate(date1)
        d2 == parseDate(date2)
        diffDays == Abs(d1.t - d2.t)
    IN  IF ~d1.ok \/ ~d2.ok THEN 0
        ELSE IF diffDays = 0 THEN 30
        ELSE IF diffDays = 1 THEN 25
        ELSE IF diffDays <= 3 THEN 20
        ELSE IF diffDays <= 7 THEN 10
        ELSE 0

\* platformMap, in the order of its entries
platformMap ==
    << [key |-> <<"di", "di">>,   values |-> << <<"di", "di">>, <<"d", "i", "d", "i">> >>],
       [key |-> <<"ru", "qi">>,   values |-> << <<"ru", "qi">>, <<"r", "u", "q", "i">> >>],
       [key |-> <<"cao", "cao">>, values |-> << <<"cao", "cao">>, <<"c", "a", "o", "c", "a", "o">> >>],
       [key |-> <<"gao", "de">>,  values |-> << <<"gao", "de">>, <<"a", "m", "a", "p">> >>],
       [key |-> <<"mei", "tuan">>, values |-> << <<"mei", "tuan">>, <<"m", "e", "i", "t", "u", "a", "n">> >>],
       [key |-> <<"shou", "qi">>, values |-> << <<"shou", "qi">>, <<"s", "h", "o", "u", "q", "i">> >>] >>

extractPlatformKeywords(platform) ==
    LET hits == SelectSeq(platformMap, LAMBDA e : Includes(platform, e.key))
    IN  IF hits = << >> THEN <<platform>>
        ELSE <<platform>> \o Head(hits).values

\* checkPlatformMatch that does not ask for a taxi Invoice
checkPlatformMatchAnyType(invoice, tripSheet) ==
    IF tripSheet.platform = << >>
    THEN FALSE
    ELSE LET invoiceText == ToLowerCase(invoice.vendor \o <<" ">> \o invoice.description)
             keywords == extractPlatformKeywords(tripSheet.platform)
         IN  \E k \in 1..Len(keywords) :
                 Includes(invoiceText, ToLowerCase(keywords[k]))

checkPlatformMatch(invoice, tripSheet) ==
    IF invoice.invoiceType # "taxi" \/ tripSheet.platform = << >>
    THEN FALSE
    ELSE LET invoiceText == ToLowerCase(invoice.vendor \o <<" ">> \o invoice.description)
             keywords == extractPlatformKeywords(tripSheet.platform)
         IN  \E k \in 1..Len(keywords) :
                 Includes(invoiceText, ToLowerCase(keywords[k]))

calculateMatchScore(invoice, tripSheet) ==
    (IF checkAmountMatch(invoice.amount, tripSheet.amount) THEN 50 ELSE 0)
    + checkDateProximity(invoice.date, tripSheet.date)
    + (IF checkPlatformMatch(invoice, tripSheet) THEN 20 ELSE 0)

MinScore == 50

\* BestMatch without the test that skips the TripSheets already claimed
RECURSIVE BestMatchClaimedToo(_, _, _, _, _)
BestMatchClaimedToo(invoice, tripSheets, matchedTripSheetIds, k, best) ==
    IF k > Len(tripSheets) THEN best
    ELSE LET tripSheet == tripSheets[k]
             score == calculateMatchScore(invoice, tripSheet)
         IN  IF score >= MinScore /\ (best = << >> \/ score > best[1].score)
             THEN BestMatchClaimedToo(invoice, tripSheets, matchedTripSheetIds, k + 1,
                                      <<[tripSheet |-> tripSheet, score |-> score]>>)
             ELSE BestMatchClaimedToo(invoice, tripSheets, matchedTripSheetIds, k + 1, best)

\* the inner loop of pairDocuments over tripSheets[k..]: best is << >> (null)
\* or <<[tripSheet, score]>>
RECURSIVE BestMatch(_, _, _, _, _)
BestMatch(invoice, tripSheets, matchedTripSheetIds, k, best) ==
    IF k > Len(tripSheets) THEN best
    ELSE LET tripSheet == tripSheets[k]
             score == calculateMatchScore(invoice, tripSheet)
         IN  IF tripSheet.id \in matchedTripSheetIds
             THEN BestMatch(invoice, tripSheets, matchedTripSheetIds, k + 1, best)
             ELSE IF score >= MinScore /\ (best = << >> \/ score > best[1].score)
             THEN BestMatch(invoice, tripSheets, matchedTripSheetIds, k + 1,
                            <<[tripSheet |-> tripSheet, score |-> score]>>)
             ELSE BestMatch(invoice, tripSheets, matchedTripSheetIds, k + 1, best)

\* the outer loop of pairDocuments over invoices[k..]
RECURSIVE PairLoop(_, _, _, _, _, _)
PairLoop(invoices, tripSheets, k, prs, matchedInvoiceIds, matchedTripSheetIds) ==
    IF k > Len(invoices)
    THEN [pairs |-> prs, matchedInvoiceIds |-> matchedInvoiceIds,
          matchedTripSheetIds |-> matchedTripSheetIds]
    ELSE LET invoice == invoices[k]
             bestMatch == BestMatch(invoice, tripSheets, matchedTripSheetIds, 1, << >>)
         IN  IF bestMatch = << >>
             THEN PairLoop(invoices, tripSheets, k + 1, prs,
                           matchedInvoiceIds, matchedTripSheetIds)
             ELSE PairLoop(invoices, tripSheets, k + 1,
                           Append(prs, [invoiceId |-> invoice.id,
                                        tripSheetId |-> bestMatch[1].tripSheet.id,
                                        confidence |-> bestMatch[1].score]),
                           matchedInvoiceIds \cup {invoice.id},
                           matchedTripSheetIds \cup {bestMatch[1].tripSheet.id})

Ids(docs) == [k \in 1..Len(docs) |-> docs[k].id]

Reverse(s) == [k \in 1..Len(s) |-> s[Len(s) + 1 - k]]

\* pairDocuments that handles the Invoices from the last to the first
pairDocumentsLastInvoiceFirst(docs) ==
    LET invoices   == SelectSeq(docs, LAMBDA d : d.documentType = "invoice")
        tripSheets == SelectSeq(docs, LAMBDA d : d.documentType = "trip_sheet")
        r == PairLoop(Reverse(invoices), tripSheets, 1, << >>, {}, {})
    IN  [pairs |-> r.pairs,
         unmatchedInvoices |->
             Ids(SelectSeq(invoices, LAMBDA d : d.id \notin r.matchedInvoiceIds)),
         unmatchedTripSheets |->
             Ids(SelectSeq(tripSheets, LAMBDA d : d.id \notin r.matchedTripSheetIds))]

pairDocuments(docs) ==
    LET invoices   == SelectSeq(docs, LAMBDA d : d.documentType = "invoice")
        tripSheets == SelectSeq(docs, LAMBDA d : d.documentType = "trip_sheet")
        r == PairLoop(invoices, tripSheets, 1, << >>, {}, {})
    IN  [pairs |-> r.pairs,
         unmatchedInvoices |->
             Ids(SelectSeq(invoices, LAMBDA d : d.id \notin r.matchedInvoiceIds)),
         unmatchedTripSheets |->
             Ids(SelectSeq(tripSheets, LAMBDA d : d.id \notin r.matchedTripSheetIds))]

-----------------------------------------------------------------------------
(* SortingService *)

\* typePriority, as the list of its keys by ascending priority
InvoiceTypes == <<"consumables", "hotel", "taxi", "shipping", "toll", "train", "other">>

typePriority(type) == CHOOSE k \in 1..Len(InvoiceTypes) : InvoiceTypes[k] = type

\* Map.get on the pair map: << >> (undefined) or <<id>>
MapGet(map, key) == IF key \in DOMAIN map THEN <<map[key]>> ELSE << >>

EmptyMap == [x \in {} |-> 0]

RECURSIVE createPairMapLoop(_, _, _)
createPairMapLoop(prs, k, pairMap) ==
    IF k > Len(prs) THEN pairMap
    ELSE LET m1 == (prs[k].invoiceId :> prs[k].tripSheetId) @@ pairMap
             m2 == (prs[k].tripSheetId :> prs[k].invoiceId) @@ m1
         IN  createPairMapLoop(prs, k + 1, m2)

createPairMap(pairingResult) == createPairMapLoop(pairingResult.pairs, 1, EmptyMap)

TypeOf(doc) == IF doc.invoiceType = "" THEN "other" ELSE doc.invoiceType

\* first forEach of groupByExpenseType, over docs[k..]
RECURSIVE GroupInvoices(_, _, _, _, _)
GroupInvoices(docs, k, pairMap, groups, processedIds) ==
    IF k > Len(docs) THEN [groups |-> groups, processedIds |-> processedIds]
    ELSE LET doc == docs[k]
             pairedId == MapGet(pairMap, doc.id)
             pairedTripSheet == IF pairedId = << >> THEN << >> ELSE FindById(docs, pairedId[1])
             type == TypeOf(doc)
         IN  IF doc.id \in processedIds \/ doc.documentType # "invoice"
             THEN GroupInvoices(docs, k + 1, pairMap, groups, processedIds)
             ELSE GroupInvoices(docs, k + 1, pairMap,
                      [groups EXCEPT ![type] = (@ \o <<doc>>) \o pairedTripSheet],
                      processedIds \cup {doc.id} \cup {d.id : d \in Range(pairedTripSheet)})

\* GroupTripSheets without the test of processedIds
RECURSIVE GroupTripSheetsAll(_, _, _, _)
GroupTripSheetsAll(docs, k, groups, processedIds) ==
    IF k > Len(docs) THEN groups
    ELSE LET doc == docs[k]
         IN  IF doc.documentType = "trip_sheet"
             THEN GroupTripSheetsAll(docs, k + 1,
                      [groups EXCEPT !["other"] = Append(@, doc)],
                      processedIds \cup {doc.id})
             ELSE GroupTripSheetsAll(docs, k + 1, groups, processedIds)

\* second forEach of groupByExpenseType, over docs[k..]
RECURSIVE GroupTripSheets(_, _, _, _)
GroupTripSheets(docs, k, groups, processedIds) ==
    IF k > Len(docs) THEN groups
    ELSE LET doc == docs[k]
         IN  IF doc.documentType = "trip_sheet" /\ doc.id \notin processedIds
             THEN GroupTripSheets(docs, k + 1,
                      [groups EXCEPT !["other"] = Append(@, doc)],
                      processedIds \cup {doc.id})
             ELSE GroupTripSheets(docs, k + 1, groups, processedIds)

groupByExpenseType(docs, pairMap) ==
    LET init == [t \in Range(InvoiceTypes) |-> << >>]
        r == GroupInvoices(docs, 1, pairMap, init, {})
    IN  GroupTripSheets(docs, 1, r.groups, r.processedIds)

\* createDocumentUnitsLoop that makes a unit of every Record by itself
RECURSIVE createDocumentUnitsSingle(_, _, _, _, _)
createDocumentUnitsSingle(docs, k, pairMap, units, processedIds) ==
    IF k > Len(docs) THEN units
    ELSE createDocumentUnitsSingle(docs, k + 1, pairMap,
             Append(units, [primaryDoc |-> docs[k], pairedDoc |-> << >>]), processedIds)

\* a unit is [primaryDoc, pairedDoc], pairedDoc being << >> or <<doc>>
RECURSIVE createDocumentUnitsLoop(_, _, _, _, _)
createDocumentUnitsLoop(docs, k, pairMap, units, processedIds) ==
    IF k > Len(docs) THEN units
    ELSE LET doc == docs[k]
             pairedId == MapGet(pairMap, doc.id)
             pairedTripSheet == IF pairedId = << >> THEN << >> ELSE FindById(docs, pairedId[1])
         IN  IF doc.id \in processedIds
             THEN createDocumentUnitsLoop(docs, k + 1, pairMap, units, processedIds)
             ELSE IF doc.documentType = "invoice"
             THEN createDocumentUnitsLoop(docs, k + 1, pairMap,
                      Append(units, [primaryDoc |-> doc, pairedDoc |-> pairedTripSheet]),
                      processedIds \cup {doc.id} \cup {d.id : d \in Range(pairedTripSheet)})
             ELSE createDocumentUnitsLoop(docs, k + 1, pairMap,
                      Append(units, [primaryDoc |-> doc, pairedDoc |-> << >>]),
                      processedIds \cup {doc.id})

createDocumentUnits(docs, pairMap) == createDocumentUnitsLoop(docs, 1, pairMap, << >>, {})

\* CompareUnits that puts a unit without date before a unit with one
CompareUnitsNullFirst(a, b) ==
    LET dateA == parseDate(a.primaryDoc.date)
        dateB == parseDate(b.primaryDoc.date)
    IN  IF ~dateA.ok /\ ~dateB.ok THEN 0
        ELSE IF ~dateA.ok THEN -1
        ELSE IF ~dateB.ok THEN 1
        ELSE dateA.t - dateB.t

\* the comparator of units.sort: negative, zero or positive
CompareUnits(a, b) ==
    LET dateA == parseDate(a.primaryDoc.date)
        dateB == parseDate(b.primaryDoc.date)
    IN  IF ~dateA.ok /\ ~dateB.ok THEN 0
        ELSE IF ~dateA.ok THEN 1
        ELSE IF ~dateB.ok THEN -1
        ELSE dateA.t - dateB.t

\* units.sort((a, b) => ...)
SortUnits(units) ==
    StableSort(units, [j, k \in 1..Len(units) |-> CompareUnits(units[j], units[k])])

RECURSIVE FlattenUnits(_)
FlattenUnits(units) ==
    IF units = << >> THEN << >>
    ELSE (<<Head(units).primaryDoc>> \o Head(units).pairedDoc) \o FlattenUnits(Tail(units))

sortGroupsByDate(groups, pairMap) ==
    [t \in DOMAIN groups |->
        IF groups[t] = << >> THEN << >>
        ELSE FlattenUnits(SortUnits(createDocumentUnits(groups[t], pairMap)))]

RECURSIVE generateFinalOrderLoop(_, _)
generateFinalOrderLoop(sortedGroups, k) ==
    IF k > Len(InvoiceTypes) THEN << >>
    ELSE Ids(sortedGroups[InvoiceTypes[k]]) \o generateFinalOrderLoop(sortedGroups, k + 1)

\* generateFinalOrder that takes the types in alphabetical order
generateFinalOrderAlphabetical(sortedGroups) ==
    Ids(sortedGroups["consumables"]) \o Ids(sortedGroups["hotel"]) \o Ids(sortedGroups["other"])
    \o Ids(sortedGroups["shipping"]) \o Ids(sortedGroups["taxi"]) \o Ids(sortedGroups["toll"])
    \o Ids(sortedGroups["train"])

generateFinalOrder(sortedGroups) == generateFinalOrderLoop(sortedGroups, 1)

\* generateGroupingInfo that keeps the key of an empty group
generateGroupingInfoAllKeys(sortedGroups) ==
    [t \in DOMAIN sortedGroups |-> Ids(sortedGroups[t])]

generateGroupingInfo(sortedGroups) ==
    [t \in {x \in DOMAIN sortedGroups : sortedGroups[x] # << >>} |-> Ids(sortedGroups[t])]

sortDocuments(docs, pairingResult) ==
    LET pairMap == createPairMap(pairingResult)
        groups == groupByExpenseType(docs, pairMap)
        sortedGroups == sortGroupsByDate(groups, pairMap)
    IN  [suggestedOrder |-> generateFinalOrder(sortedGroups),
         grouping |-> generateGroupingInfo(sortedGroups)]

-----------------------------------------------------------------------------
(* AnomalyDetector *)

Warning(type, documentIds, severity) == [type |-> type, documentIds |-> documentIds, severity |-> severity]

\* Number.prototype.toFixed(2): the sign and the hundredths, half away from zero
toFixed2(amount) == [neg |-> amount < 0, cents |-> (Abs(amount) + 5) \div 10]

\* one warning for every key whose group has more than one member; docKeys[j]
\* is the key of docs[j], keys are the keys of the Map in insertion order
GroupWarnings(docs, docKeys, keys, severity) ==
    LET group(k) == SelectSeq([j \in 1..Len(docs) |-> j], LAMBDA j : docKeys[j] = keys[k])
        big == SelectSeq([k \in 1..Len(keys) |-> k], LAMBDA k : Len(group(k)) > 1)
    IN  [n \in 1..Len(big) |->
            Warning("duplicate", [j \in 1..Len(group(big[n])) |-> docs[group(big[n])[j]].id], severity)]

NumberKey(d) == d.invoiceNumber

\* AmountDateKey of the amount as it is, without toFixed(2)
AmountDateKeyUnrounded(d) == <<[neg |-> d.amount < 0, cents |-> d.amount], d.date>>

AmountDateKey(d) == <<toFixed2(d.amount), d.date>>

\* detectDuplicates whose second pass takes every Invoice
detectDuplicatesAllInRest(docs) ==
    LET invoices == SelectSeq(docs, LAMBDA d : d.documentType = "invoice")
        numbered == SelectSeq(invoices, LAMBDA d : d.invoiceNumber # "")
        numberOf == [k \in 1..Len(numbered) |-> NumberKey(numbered[k])]
        amountDateOf == [k \in 1..Len(invoices) |-> AmountDateKey(invoices[k])]
    IN  GroupWarnings(numbered, numberOf, DistinctInOrder(numberOf), "high")
        \o GroupWarnings(invoices, amountDateOf, DistinctInOrder(amountDateOf), "medium")

detectDuplicates(docs) ==
    LET invoices == SelectSeq(docs, LAMBDA d : d.documentType = "invoice")
        numbered == SelectSeq(invoices, LAMBDA d : d.invoiceNumber # "")
        numberOf == [k \in 1..Len(numbered) |-> NumberKey(numbered[k])]
        sameNumber(d) == Len(SelectSeq(numbered, LAMBDA e : e.invoiceNumber = d.invoiceNumber))
        rest == SelectSeq(invoices, LAMBDA d : d.invoiceNumber = "" \/ sameNumber(d) = 1)
        amountDateOf == [k \in 1..Len(rest) |-> AmountDateKey(rest[k])]
    IN  GroupWarnings(numbered, numberOf, DistinctInOrder(numberOf), "high")
        \o GroupWarnings(rest, amountDateOf, DistinctInOrder(amountDateOf), "medium")

CompareNumbers(a, b) == a - b

\* calculateAmountStats with the median (index floor(n*0.5)) taken for q3
calculateAmountStatsMedianQ3(amounts) ==
    LET n == Len(amounts)
        q1 == amounts[(n \div 4) + 1]
        q3 == amounts[(n \div 2) + 1]
    IN  [q1 |-> q1, q3 |-> q3, iqr |-> q3 - q1, min |-> amounts[1], max |-> amounts[n]]

\* q1 and q3 of the sorted amounts (0-based indexes floor(n*0.25), floor(n*0.75))
calculateAmountStats(amounts) ==
    LET n == Len(amounts)
        q1 == amounts[(n \div 4) + 1]
        q3 == amounts[((3 * n) \div 4) + 1]
    IN  [q1 |-> q1, q3 |-> q3, iqr |-> q3 - q1, min |-> amounts[1], max |-> amounts[n]]

\* "high", "medium" or "none" (null); the bounds q -/+ 1.5 iqr are compared doubled
isAmountAnomaly(amount, stats) ==
    IF amount < stats.q1 - 3 * stats.iqr \/ amount > stats.q3 + 3 * stats.iqr
    THEN "high"
    ELSE IF 2 * amount < 2 * stats.q1 - 3 * stats.iqr \/ 2 * amount > 2 * stats.q3 + 3 * stats.iqr
    THEN "medium"
    ELSE "none"

MinSamples == 2

\* the warnings of one type group of detectAmountAnomalies
TypeAnomalies(typeInvoices) ==
    LET unsorted == [k \in 1..Len(typeInvoices) |-> typeInvoices[k].amount]
        amounts == StableSort(unsorted, [j, k \in 1..Len(unsorted) |-> CompareNumbers(unsorted[j], unsorted[k])])
        stats == calculateAmountStats(amounts)
        flagged == SelectSeq(typeInvoices, LAMBDA d : isAmountAnomaly(d.amount, stats) # "none")
    IN  IF Len(typeInvoices) < MinSamples THEN << >>
        ELSE [k \in 1..Len(flagged) |->
                 Warning("amount_anomaly", <<flagged[k].id>>, isAmountAnomaly(flagged[k].amount, stats))]

RECURSIVE ConcatAll(_)
ConcatAll(ss) == IF ss = << >> THEN << >> ELSE Head(ss) \o ConcatAll(Tail(ss))

\* detectAmountAnomalies that puts all Invoices in one group, whatever their type
detectAmountAnomaliesPooled(docs) ==
    TypeAnomalies(SelectSeq(docs, LAMBDA d : d.documentType = "invoice"))

detectAmountAnomalies(docs) ==
    LET invoices == SelectSeq(docs, LAMBDA d : d.documentType = "invoice")
        types == DistinctInOrder([k \in 1..Len(invoices) |-> TypeOf(invoices[k])])
    IN  ConcatAll([k \in 1..Len(types) |->
            TypeAnomalies(SelectSeq(invoices, LAMBDA d : TypeOf(d) = types[k]))])

CompareDated(a, b) == parseDate(a.date).t - parseDate(b.date).t

GapSeverity(gapDays) == IF gapDays > 30 THEN "high" ELSE IF gapDays > 14 THEN "medium" ELSE "low"

\* detectDateGaps without the sort: the Records stay in input order
detectDateGapsUnsorted(docs) ==
    LET dated == SelectSeq(docs, LAMBDA d : parseDate(d.date).ok)
        gap(k) == Abs(parseDate(dated[k].date).t - parseDate(dated[k - 1].date).t)
        wide == SelectSeq([k \in 1..(Len(dated) - 1) |-> k + 1], LAMBDA k : gap(k) > 7)
    IN  [n \in 1..Len(wide) |->
            Warning("date_gap", <<dated[wide[n] - 1].id, dated[wide[n]].id>>, GapSeverity(gap(wide[n])))]

detectDateGaps(docs) ==
    LET parsed == SelectSeq(docs, LAMBDA d : parseDate(d.date).ok)
        dated == StableSort(parsed, [j, k \in 1..Len(parsed) |-> CompareDated(parsed[j], parsed[k])])
        gap(k) == Abs(parseDate(dated[k].date).t - parseDate(dated[k - 1].date).t)
        wide == SelectSeq([k \in 1..(Len(dated) - 1) |-> k + 1], LAMBDA k : gap(k) > 7)
    IN  [n \in 1..Len(wide) |->
            Warning("date_gap", <<dated[wide[n] - 1].id, dated[wide[n]].id>>, GapSeverity(gap(wide[n])))]

\* detectMissingPairs that warns for an unmatched Invoice of any type
detectMissingPairsAnyType(docs, pairingResult) ==
    LET found(id) == FindById(docs, id) # << >>
        inv == SelectSeq(pairingResult.unmatchedInvoices, found)
        trp == SelectSeq(pairingResult.unmatchedTripSheets, found)
    IN  [k \in 1..Len(inv) |-> Warning("missing_pair", <<inv[k]>>, "medium")]
        \o [k \in 1..Len(trp) |-> Warning("missing_pair", <<trp[k]>>, "medium")]

detectMissingPairs(docs, pairingResult) ==
    LET taxi(id) == LET f == FindById(docs, id) IN f # << >> /\ f[1].invoiceType = "taxi"
        found(id) == FindById(docs, id) # << >>
        inv == SelectSeq(pairingResult.unmatchedInvoices, taxi)
        trp == SelectSeq(pairingResult.unmatchedTripSheets, found)
    IN  [k \in 1..Len(inv) |-> Warning("missing_pair", <<inv[k]>>, "medium")]
        \o [k \in 1..Len(trp) |-> Warning("missing_pair", <<trp[k]>>, "medium")]

\* detectAnomalies that warns when a pairing result holds no Pair at all
detectAnomaliesNoPairWarning(docs, pairingResult) ==
    detectDuplicates(docs) \o detectAmountAnomalies(docs) \o detectDateGaps(docs)
    \o (IF pairingResult = << >> THEN << >>
        ELSE IF pairingResult[1].pairs = << >> THEN <<Warning("missing_pair", << >>, "low")>>
        ELSE detectMissingPairs(docs, pairingResult[1]))

\* pairingResult is << >> (not supplied) or <<PairingResult>>
detectAnomalies(docs, pairingResult) ==
    detectDuplicates(docs) \o detectAmountAnomalies(docs) \o detectDateGaps(docs)
    \o (IF pairingResult = << >> THEN << >> ELSE detectMissingPairs(docs, pairingResult[1]))

-----------------------------------------------------------------------------
(* AIService.recognizeDocument and BatchProcessor.processBatch *)

MaxFiles == 3
MaxPages == 2

MAX_RETRIES == 3
INITIAL_RETRY_DELAY == 1000

\* MAX_CONCURRENT of the deployment configuration
MaxConcurrent == 2

RuqiChuxing == <<"ru", "qi", "chu", "xing">>

TaxiInvoice == Doc(0, 0, "invoice", MD(11, 3), Yuan(219) + 670, "taxi", "INV001", RuqiChuxing, << >>, << >>, 95, "completed", "")

TripSheet == Doc(0, 0, "trip_sheet", MD(11, 3), Yuan(219) + 670, "", "", << >>, << >>, RuqiChuxing, 90, "completed", "")

\* what parseAIResponse can return for a page (id and fileName are set by the
\* caller): the first page of a file is an Invoice or a TripSheet, a further
\* page is a TripSheet
Recognized(page) == IF page = 1 THEN {TaxiInvoice, TripSheet} ELSE {TripSheet}

\* generateDocumentId and the id of createErrorDocument: a fresh id per call
DocId(file, page) == file * 10 + page

\* createErrorDocument that makes the placeholder a TripSheet
createErrorDocumentTripSheet(file, errorMessage) ==
    Doc(DocId(file, 0), file, "trip_sheet", EmptyDate, 0, "", "", << >>, << >>, << >>, 0, "error", errorMessage)

createErrorDocument(file, errorMessage) ==
    Doc(DocId(file, 0), file, "invoice", EmptyDate, 0, "", "", << >>, << >>, << >>, 0, "error", errorMessage)

NoPairs == [pairs |-> << >>, unmatchedInvoices |-> << >>, unmatchedTripSheets |-> << >>]
NoSorting == [suggestedOrder |-> << >>, grouping |-> EmptyMap]
NoCalls == [pair |-> 0, sort |-> 0, detect |-> 0]

\* an APIConfig: kind is "absent" or "object", endpoint is "absent", "text" (a
\* string that is no URL) or "url", apiKey is the length of the key (0 when
\* there is none), model is "absent" or "name"
Config(kind, endpoint, apiKey, model) == [kind |-> kind, endpoint |-> endpoint, apiKey |-> apiKey, model |-> model]

ValidConfig == Config("object", "url", 32, "name")

\* the state before processBatch has done anything
Fresh ==
    /\ fileIdx = 1 /\ pages = 0 /\ pageIdx = 0 /\ pageDocs = << >>
    /\ recognizedPages = << >>
    /\ selectedForPairing = << >>
    /\ retryCount = 0 /\ delays = << >> /\ attempts = 0 /\ inFlight = 0
    /\ errors = << >> /\ progress = << >> /\ calls = NoCalls
    /\ pairs = NoPairs /\ sorting = NoSorting /\ warnings = << >>
    /\ outcome = "none"

Idle ==
    /\ apiConfig = ValidConfig
    /\ Fresh

\* the state when processBatch is entered
Init ==
    /\ pc = "start"
    /\ files \in {[k \in 1..n |-> k] : n \in 0..MaxFiles}
    /\ documents = << >>
    /\ Idle

\* lines 73-78: the first notification
Begin ==
    /\ pc = "start"
    /\ progress' = Append(progress, "recognizing")
    /\ pc' = "loop"
    /\ UNCHANGED <<apiConfig, selectedForPairing, recognizedPages, files, fileIdx, pages, pageIdx, pageDocs, retryCount, delays, attempts,
                   inFlight, documents, errors, calls, pairs, sorting, warnings, outcome>>

\* lines 80-95, 207: the loop takes file i, notifies and awaits processFileToBase64
StartFile ==
    /\ pc = "loop"
    /\ fileIdx <= Len(files)
    /\ progress' = Append(progress, "recognizing")
    /\ pageDocs' = << >>
    /\ pageIdx' = 0
    /\ recognizedPages' = << >>
    /\ pc' = "converting"
    /\ UNCHANGED <<apiConfig, selectedForPairing, files, fileIdx, pages, retryCount, delays, attempts, inFlight,
                   documents, errors, calls, pairs, sorting, warnings, outcome>>

\* FileFailed that records the error without a placeholder Record
FileFailedNoPlaceholder(errorMessage) ==
    /\ errors' = Append(errors, [fileName |-> fileIdx, error |-> errorMessage])
    /\ documents' = documents
    /\ fileIdx' = fileIdx + 1
    /\ pages' = 0
    /\ pageIdx' = 0
    /\ pageDocs' = << >>
    /\ retryCount' = 0 /\ delays' = << >> /\ attempts' = 0
    /\ pc' = "loop"

\* FileFailed that leaves the loop over the files
FileFailedBreaks(errorMessage) ==
    /\ errors' = Append(errors, [fileName |-> fileIdx, error |-> errorMessage])
    /\ documents' = Append(documents, createErrorDocument(fileIdx, errorMessage))
    /\ fileIdx' = Len(files) + 1
    /\ pages' = 0
    /\ pageIdx' = 0
    /\ pageDocs' = << >>
    /\ retryCount' = 0 /\ delays' = << >> /\ attempts' = 0
    /\ pc' = "loop"

\* FileFailed that keeps the Records of the pages recognized before the failure
FileFailedKeepsPages(errorMessage) ==
    /\ errors' = Append(errors, [fileName |-> fileIdx, error |-> errorMessage])
    /\ documents' = Append(documents \o pageDocs, createErrorDocument(fileIdx, errorMessage))
    /\ fileIdx' = fileIdx + 1
    /\ pages' = 0
    /\ pageIdx' = 0
    /\ pageDocs' = << >>
    /\ retryCount' = 0 /\ delays' = << >> /\ attempts' = 0
    /\ pc' = "loop"

\* lines 101-113: the catch of the loop body
FileFailed(errorMessage) ==
    /\ errors' = Append(errors, [fileName |-> fileIdx, error |-> errorMessage])
    /\ documents' = Append(documents, createErrorDocument(fileIdx, errorMessage))
    /\ fileIdx' = fileIdx + 1
    /\ pages' = 0
    /\ pageIdx' = 0
    /\ pageDocs' = << >>
    /\ retryCount' = 0 /\ delays' = << >> /\ attempts' = 0
    /\ pc' = "loop"

\* processFileToBase64 returns the page images, at least one
Converted ==
    /\ pc = "converting"
    /\ pages' \in 1..MaxPages
    /\ pageIdx' = 1
    /\ pc' = "call"
    /\ UNCHANGED <<apiConfig, selectedForPairing, recognizedPages, files, fileIdx, pageDocs, retryCount, delays, attempts, inFlight,
                   documents, errors, progress, calls, pairs, sorting, warnings, outcome>>

\* processFileToBase64 throws a FileError
ConvertFailed ==
    /\ pc = "converting"
    /\ FileFailed("file_error")
    /\ UNCHANGED <<apiConfig, selectedForPairing, recognizedPages, files, inFlight, progress, calls, pairs, sorting, warnings, outcome>>

\* recognizeDocument calls retryWithBackoff(operation) with retryCount 0
CallRecognize ==
    /\ pc = "call"
    /\ attempts' = 1
    /\ inFlight' = inFlight + 1
    /\ recognizedPages' = Append(recognizedPages, pageIdx)
    /\ pc' = "awaiting"
    /\ UNCHANGED <<apiConfig, selectedForPairing, files, fileIdx, pages, pageIdx, pageDocs, retryCount, delays, documents,
                   errors, progress, calls, pairs, sorting, warnings, outcome>>

\* the response is a Record: processFile goes to the next page or returns
AttemptSucceeds ==
    /\ pc = "awaiting"
    /\ inFlight' = inFlight - 1
    /\ \E r \in Recognized(pageIdx) :
        LET doc == [r EXCEPT !.id = DocId(fileIdx, pageIdx), !.fileName = fileIdx]
        IN  IF pageIdx < pages
            THEN /\ pageDocs' = Append(pageDocs, doc)
                 /\ pageIdx' = pageIdx + 1
                 /\ pc' = "call"
                 /\ UNCHANGED <<documents, fileIdx, pages>>
            ELSE /\ documents' = documents \o Append(pageDocs, doc)
                 /\ pageDocs' = << >>
                 /\ pages' = 0
                 /\ pageIdx' = 0
                 /\ fileIdx' = fileIdx + 1
                 /\ pc' = "loop"
    /\ retryCount' = 0 /\ delays' = << >> /\ attempts' = 0
    /\ UNCHANGED <<apiConfig, selectedForPairing, recognizedPages, files, errors, progress, calls, pairs, sorting, warnings, outcome>>

\* AttemptFailsRetry with the test retryCount <= MAX_RETRIES
AttemptFailsRetryOnceMore ==
    /\ pc = "awaiting"
    /\ retryCount <= MAX_RETRIES
    /\ inFlight' = inFlight - 1
    /\ delays' = Append(delays, INITIAL_RETRY_DELAY * 2 ^ retryCount)
    /\ pc' = "delaying"
    /\ UNCHANGED <<apiConfig, selectedForPairing, recognizedPages, files, fileIdx, pages, pageIdx, pageDocs, retryCount, attempts, documents,
                   errors, progress, calls, pairs, sorting, warnings, outcome>>

\* AttemptFailsRetry that starts the call afresh instead of counting the retry
AttemptFailsRetryAfresh ==
    /\ pc = "awaiting"
    /\ inFlight' = inFlight - 1
    /\ retryCount' = 0
    /\ attempts' = 0
    /\ delays' = <<INITIAL_RETRY_DELAY>>
    /\ pc' = "delaying"
    /\ UNCHANGED <<apiConfig, selectedForPairing, recognizedPages, files, fileIdx, pages, pageIdx, pageDocs, documents,
                   errors, progress, calls, pairs, sorting, warnings, outcome>>

\* retryWithBackoff, retryable error and retryCount < MAX_RETRIES: wait
AttemptFailsRetry ==
    /\ pc = "awaiting"
    /\ retryCount < MAX_RETRIES
    /\ inFlight' = inFlight - 1
    /\ delays' = Append(delays, INITIAL_RETRY_DELAY * 2 ^ retryCount)
    /\ pc' = "delaying"
    /\ UNCHANGED <<apiConfig, selectedForPairing, recognizedPages, files, fileIdx, pages, pageIdx, pageDocs, retryCount, attempts, documents,
                   errors, progress, calls, pairs, sorting, warnings, outcome>>

\* the delay is over: retryWithBackoff(operation, retryCount + 1)
DelayElapsed ==
    /\ pc = "delaying"
    /\ retryCount' = retryCount + 1
    /\ attempts' = attempts + 1
    /\ inFlight' = inFlight + 1
    /\ pc' = "awaiting"
    /\ UNCHANGED <<apiConfig, selectedForPairing, recognizedPages, files, fileIdx, pages, pageIdx, pageDocs, delays, documents,
                   errors, progress, calls, pairs, sorting, warnings, outcome>>

\* retryWithBackoff, retryable error and the retries are used up: throw
AttemptFailsExhausted ==
    /\ pc = "awaiting"
    /\ ~(retryCount < MAX_RETRIES)
    /\ inFlight' = inFlight - 1
    /\ FileFailed("retryable_error")
    /\ UNCHANGED <<apiConfig, selectedForPairing, recognizedPages, files, progress, calls, pairs, sorting, warnings, outcome>>

\* retryWithBackoff, error that is not retryable: throw
AttemptFailsFatal ==
    /\ pc = "awaiting"
    /\ inFlight' = inFlight - 1
    /\ FileFailed("fatal_error")
    /\ UNCHANGED <<apiConfig, selectedForPairing, recognizedPages, files, progress, calls, pairs, sorting, warnings, outcome>>

\* lines 117-119 and 179-192: no document at all, throw and notify the error
AllFailed ==
    /\ pc = "loop"
    /\ fileIdx > Len(files)
    /\ Len(documents) = 0
    /\ progress' = Append(progress, "error")
    /\ outcome' = "thrown"
    /\ pc' = "done"
    /\ UNCHANGED <<apiConfig, selectedForPairing, recognizedPages, files, fileIdx, pages, pageIdx, pageDocs, retryCount, delays, attempts,
                   inFlight, documents, errors, calls, pairs, sorting, warnings>>

\* PairStage run inside the loop, after any file
PairStageEarly ==
    /\ pc = "loop"
    /\ Len(documents) # 0
    /\ progress' = Append(progress, "pairing")
    /\ pairs' = pairDocuments(documents)
    /\ calls' = [calls EXCEPT !.pair = @ + 1]
    /\ pc' = "pairing_done"
    /\ UNCHANGED <<apiConfig, selectedForPairing, recognizedPages, files, fileIdx, pages, pageIdx, pageDocs, retryCount, delays, attempts,
                   inFlight, documents, errors, sorting, warnings, outcome>>

\* lines 122-130
PairStage ==
    /\ pc = "loop"
    /\ fileIdx > Len(files)
    /\ Len(documents) # 0
    /\ progress' = Append(progress, "pairing")
    /\ pairs' = pairDocuments(documents)
    /\ calls' = [calls EXCEPT !.pair = @ + 1]
    /\ pc' = "pairing_done"
    /\ UNCHANGED <<apiConfig, selectedForPairing, recognizedPages, files, fileIdx, pages, pageIdx, pageDocs, retryCount, delays, attempts,
                   inFlight, documents, errors, sorting, warnings, outcome>>

\* lines 133-142
SortStage ==
    /\ pc = "pairing_done"
    /\ progress' = Append(progress, "sorting")
    /\ sorting' = sortDocuments(documents, pairs)
    /\ calls' = [calls EXCEPT !.sort = @ + 1]
    /\ pc' = "sorting_done"
    /\ UNCHANGED <<apiConfig, selectedForPairing, recognizedPages, files, fileIdx, pages, pageIdx, pageDocs, retryCount, delays, attempts,
                   inFlight, documents, errors, pairs, warnings, outcome>>

\* lines 145-155
DetectStage ==
    /\ pc = "sorting_done"
    /\ progress' = Append(progress, "detecting")
    /\ warnings' = detectAnomalies(documents, <<pairs>>)
    /\ calls' = [calls EXCEPT !.detect = @ + 1]
    /\ pc' = "detecting_done"
    /\ UNCHANGED <<apiConfig, selectedForPairing, recognizedPages, files, fileIdx, pages, pageIdx, pageDocs, retryCount, delays, attempts,
                   inFlight, documents, errors, pairs, sorting, outcome>>

\* lines 158-177
Complete ==
    /\ pc = "detecting_done"
    /\ progress' = Append(progress, "completed")
    /\ outcome' = "returned"
    /\ pc' = "done"
    /\ UNCHANGED <<apiConfig, selectedForPairing, recognizedPages, files, fileIdx, pages, pageIdx, pageDocs, retryCount, delays, attempts,
                   inFlight, documents, errors, calls, pairs, sorting, warnings>>

Next ==
    \/ Begin
    \/ StartFile
    \/ Converted
    \/ ConvertFailed
    \/ CallRecognize
    \/ AttemptSucceeds
    \/ AttemptFailsRetry
    \/ DelayElapsed
    \/ AttemptFailsExhausted
    \/ AttemptFailsFatal
    \/ AllFailed
    \/ PairStage
    \/ SortStage
    \/ DetectStage
    \/ Complete

Spec == Init /\ [][Next]_vars

\* the steps of processBatch up to the end of the loop over the files: each
\* waits for a call that settles (the conversion of a file, a recognition
\* attempt, a delay of retryWithBackoff) or for nothing at all
Recognizing ==
    \/ Begin
    \/ StartFile
    \/ Converted
    \/ ConvertFailed
    \/ CallRecognize
    \/ AttemptSucceeds
    \/ AttemptFailsRetry
    \/ DelayElapsed
    \/ AttemptFailsExhausted
    \/ AttemptFailsFatal
    \/ AllFailed

\* the steps of PairStage, SortStage, DetectStage and Complete as pc shows them:
\* lines 122-177 are synchronous code, nothing is awaited between them
Reconciling ==
    \/ pc = "loop" /\ fileIdx > Len(files) /\ Len(documents) # 0 /\ pc' = "pairing_done"
    \/ pc = "pairing_done" /\ pc' = "sorting_done"
    \/ pc = "sorting_done" /\ pc' = "detecting_done"
    \/ pc = "detecting_done" /\ pc' = "done"

\* processBatch when every awaited call settles and the code that does not wait
\* runs on
SpecFair == Init /\ [][Next]_vars /\ WF_vars(Recognizing) /\ WF_pc(Reconciling)

-----------------------------------------------------------------------------
(* POST /api/batch-process *)

MinKeyLength == 10

\* validateAPIConfig that does not test the length of the key
validateAPIConfigAnyKey(config) ==
    IF config.kind # "object" THEN "ValidationError"
    ELSE IF config.endpoint = "absent" THEN "ValidationError"
    ELSE IF config.apiKey = 0 THEN "ValidationError"
    ELSE IF config.model = "absent" THEN "ValidationError"
    ELSE IF config.endpoint # "url" THEN "ValidationError"
    ELSE "ok"

\* "ok" when the config is returned, else the error thrown
validateAPIConfig(config) ==
    IF config.kind # "object" THEN "ValidationError"
    ELSE IF config.endpoint = "absent" THEN "ValidationError"
    ELSE IF config.apiKey = 0 \/ config.apiKey < MinKeyLength THEN "ValidationError"
    ELSE IF config.model = "absent" THEN "ValidationError"
    ELSE IF config.endpoint # "url" THEN "ValidationError"
    ELSE "ok"

\* no config at all, and configs with and without each field, with keys of
\* 9 and 10 characters and endpoints that are URLs and that are not
Configs ==
    {Config("absent", "absent", 0, "absent")}
    \cup {Config("object", endpoint, apiKey, model) :
             endpoint \in {"absent", "text", "url"},
             apiKey \in {0, MinKeyLength - 1, MinKeyLength},
             model \in {"absent", "name"}}

\* the state when the handler of the route is entered
InitRoute ==
    /\ pc = "request"
    /\ apiConfig \in Configs
    /\ files \in {[k \in 1..n |-> k] : n \in 0..MaxFiles}
    /\ documents = << >>
    /\ Fresh

\* lines 141-143: no file was uploaded
RejectNoFiles ==
    /\ pc = "request"
    /\ Len(files) = 0
    /\ outcome' = "validation_error"
    /\ pc' = "done"
    /\ UNCHANGED <<apiConfig, selectedForPairing, recognizedPages, files, fileIdx, pages, pageIdx, pageDocs, retryCount, delays, attempts,
                   inFlight, documents, errors, progress, calls, pairs, sorting, warnings>>

\* line 146: validateAPIConfig throws
RejectInvalidConfig ==
    /\ pc = "request"
    /\ Len(files) # 0
    /\ validateAPIConfig(apiConfig) # "ok"
    /\ outcome' = "validation_error"
    /\ pc' = "done"
    /\ UNCHANGED <<apiConfig, selectedForPairing, recognizedPages, files, fileIdx, pages, pageIdx, pageDocs, retryCount, delays, attempts,
                   inFlight, documents, errors, progress, calls, pairs, sorting, warnings>>

\* lines 149-152: the handler calls processBatch
CallProcessBatch ==
    /\ pc = "request"
    /\ Len(files) # 0
    /\ validateAPIConfig(apiConfig) = "ok"
    /\ pc' = "start"
    /\ UNCHANGED <<apiConfig, selectedForPairing, recognizedPages, files, fileIdx, pages, pageIdx, pageDocs, retryCount, delays, attempts,
                   inFlight, documents, errors, progress, calls, pairs, sorting, warnings, outcome>>

\* the handler and the processBatch it calls; the file list is not empty
\* there, so processBatch has Records (placeholders at least) after its loop
NextRoute ==
    \/ RejectNoFiles
    \/ RejectInvalidConfig
    \/ CallProcessBatch
    \/ Begin
    \/ StartFile
    \/ Converted
    \/ ConvertFailed
    \/ CallRecognize
    \/ AttemptSucceeds
    \/ AttemptFailsRetry
    \/ DelayElapsed
    \/ AttemptFailsExhausted
    \/ AttemptFailsFatal
    \/ PairStage
    \/ SortStage
    \/ DetectStage
    \/ Complete

SpecRoute == InitRoute /\ [][NextRoute]_vars

-----------------------------------------------------------------------------
(* The services applied to arbitrary Record lists *)

MaxDocs == 4

\* Records of both kinds: dates in every accepted format and unparseable,
\* amounts equal and different, with and without category and platform
Templates ==
    { Doc(0, 0, "invoice", MD(11, 3), Yuan(219) + 670, "taxi", "INV001", RuqiChuxing, << >>, << >>, 95, "completed", ""),
      Doc(0, 0, "invoice", Dash(2026, 11, 1), Yuan(500), "hotel", "INV002", << >>, << >>, << >>, 90, "completed", ""),
      Doc(0, 0, "invoice", Text(1), Yuan(219) + 670, "", "", << >>, << >>, << >>, 60, "completed", ""),
      Doc(0, 0, "invoice", MD(11, 4), Yuan(300), "taxi", "INV001", <<"D", "i", "D", "i">>, << >>, << >>, 80, "completed", ""),
      Doc(0, 0, "invoice", EmptyDate, 0, "", "", << >>, << >>, << >>, 0, "error", "fatal_error"),
      Doc(0, 0, "trip_sheet", MD(11, 3), Yuan(219) + 670, "", "", << >>, << >>, RuqiChuxing, 90, "completed", ""),
      Doc(0, 0, "trip_sheet", Slash(2026, 11, 5), Yuan(300), "", "", << >>, << >>, <<"di", "di">>, 85, "completed", "") }

\* the Records get the unique ids 1..n in list order
WithIds(f) == [k \in DOMAIN f |-> [f[k] EXCEPT !.id = k, !.fileName = k]]

InitServices ==
    /\ pc = "input"
    /\ files = << >>
    /\ documents \in {WithIds(f) : f \in UNION {[1..n -> Templates] : n \in 0..MaxDocs}}
    /\ Idle

ServiceFrame == UNCHANGED <<apiConfig, selectedForPairing, recognizedPages, files, fileIdx, pages, pageIdx, pageDocs, retryCount, delays, attempts, inFlight, documents, errors, progress, outcome>>

CallPairDocuments ==
    /\ pc = "input"
    /\ pairs' = pairDocuments(documents)
    /\ calls' = [calls EXCEPT !.pair = @ + 1]
    /\ pc' = "paired"
    /\ UNCHANGED <<sorting, warnings>>
    /\ ServiceFrame

CallSortDocuments ==
    /\ pc = "paired"
    /\ sorting' = sortDocuments(documents, pairs)
    /\ calls' = [calls EXCEPT !.sort = @ + 1]
    /\ pc' = "sorted"
    /\ UNCHANGED <<pairs, warnings>>
    /\ ServiceFrame

\* detectAnomalies(documents, pairingResult)
CallDetectAnomalies ==
    /\ pc = "sorted"
    /\ warnings' = detectAnomalies(documents, <<pairs>>)
    /\ calls' = [calls EXCEPT !.detect = @ + 1]
    /\ pc' = "detected"
    /\ UNCHANGED <<pairs, sorting>>
    /\ ServiceFrame

\* detectAnomalies(documents)
CallDetectAnomaliesAlone ==
    /\ pc = "input"
    /\ warnings' = detectAnomalies(documents, << >>)
    /\ calls' = [calls EXCEPT !.detect = @ + 1]
    /\ pc' = "detected_alone"
    /\ UNCHANGED <<pairs, sorting>>
    /\ ServiceFrame

NextServices ==
    \/ CallPairDocuments
    \/ CallSortDocuments
    \/ CallDetectAnomalies
    \/ CallDetectAnomaliesAlone

SpecServices == InitServices /\ [][NextServices]_vars

-----------------------------------------------------------------------------
(* detectAmountAnomalies applied to Invoices of given amounts *)

MaxInvoices == 4

AmountValues == {Yuan(100), Yuan(102), Yuan(105), Yuan(5000)}

\* an Invoice without a type and an Invoice with one
AmountTypes == {"", "hotel"}

AmountInvoice(type, amount) ==
    Doc(0, 0, "invoice", EmptyDate, amount, type, "", << >>, << >>, << >>, 90, "completed", "")

InitAmounts ==
    /\ pc = "amounts"
    /\ files = << >>
    /\ documents \in {WithIds(f) : f \in UNION {[1..n -> {AmountInvoice(t, a) : t \in AmountTypes, a \in AmountValues}] : n \in 0..MaxInvoices}}
    /\ Idle

CallDetectAmountAnomalies ==
    /\ pc = "amounts"
    /\ warnings' = detectAmountAnomalies(documents)
    /\ pc' = "amounts_done"
    /\ UNCHANGED <<calls, pairs, sorting>>
    /\ ServiceFrame

NextAmounts == CallDetectAmountAnomalies

SpecAmounts == InitAmounts /\ [][NextAmounts]_vars

-----------------------------------------------------------------------------
(* detectDateGaps applied to Records of given dates *)

MaxDated == 4

\* dates 7, 8, 14, 15, 30, 31 and 45 days apart, and a string that is no date
DateValues ==
    {Dash(2024, 1, 1), Dash(2024, 1, 8), Slash(2024, 1, 9), Dash(2024, 1, 15),
     Dash(2024, 1, 16), Dash(2024, 2, 15), Text(1)}

DatedInvoice(date) ==
    Doc(0, 0, "invoice", date, Yuan(100), "hotel", "", << >>, << >>, << >>, 90, "completed", "")

DatedTripSheet(date) ==
    Doc(0, 0, "trip_sheet", date, Yuan(100), "", "", << >>, << >>, << >>, 90, "completed", "")

DatedRecords ==
    {DatedInvoice(date) : date \in DateValues}
    \cup {DatedTripSheet(date) : date \in {Dash(2024, 2, 15), Text(1)}}

InitDates ==
    /\ pc = "dates"
    /\ files = << >>
    /\ documents \in {WithIds(f) : f \in UNION {[1..n -> DatedRecords] : n \in 0..MaxDated}}
    /\ Idle

CallDetectDateGaps ==
    /\ pc = "dates"
    /\ warnings' = detectDateGaps(documents)
    /\ pc' = "dates_done"
    /\ UNCHANGED <<calls, pairs, sorting>>
    /\ ServiceFrame

NextDates == CallDetectDateGaps

SpecDates == InitDates /\ [][NextDates]_vars

-----------------------------------------------------------------------------
(* pairDocuments applied to one Invoice and one TripSheet *)

\* equal amounts, amounts 0.01 apart and amounts further apart
ScoreInvoiceAmounts == {Yuan(219) + 670, Yuan(219) + 680, Yuan(300), Yuan(300) + 20}
ScoreTripAmounts == {Yuan(219) + 670, Yuan(300) + 10}

\* 0, 1, 2, 3, 4, 7 and 8 days from 11/03, and strings that are no dates
ScoreInvoiceDates == {MD(11, 3), Text(1)}
ScoreTripDates ==
    {MD(11, 3), MD(11, 4), Dash(2026, 11, 5), Slash(2026, 11, 6), MD(11, 7),
     Dash(2026, 11, 10), MD(11, 11), Text(2)}

\* invoiceType, vendor, description
ScoreInvoiceTexts ==
    {<<"taxi", RuqiChuxing, << >> >>,
     <<"taxi", << >>, <<"R", "u", "q", "i", " ", "t", "r", "i", "p">> >>,
     <<"taxi", <<"D", "i", "D", "i">>, << >> >>,
     <<"hotel", RuqiChuxing, << >> >>,
     <<"", RuqiChuxing, << >> >>}

ScorePlatforms == {RuqiChuxing, << >>}

ScoreInvoices ==
    {Doc(1, 1, "invoice", date, amount, text[1], "", text[2], text[3], << >>, 90, "completed", "") :
        date \in ScoreInvoiceDates, amount \in ScoreInvoiceAmounts, text \in ScoreInvoiceTexts}

ScoreTripSheets ==
    {Doc(2, 2, "trip_sheet", date, amount, "", "", << >>, << >>, platform, 90, "completed", "") :
        date \in ScoreTripDates, amount \in ScoreTripAmounts, platform \in ScorePlatforms}

InitScores ==
    /\ pc = "score_input"
    /\ files = << >>
    /\ documents \in {<<invoice, tripSheet>> : invoice \in ScoreInvoices, tripSheet \in ScoreTripSheets}
    /\ Idle

CallPairDocumentsOfTwo ==
    /\ pc = "score_input"
    /\ pairs' = pairDocuments(documents)
    /\ calls' = [calls EXCEPT !.pair = @ + 1]
    /\ pc' = "score_paired"
    /\ UNCHANGED <<sorting, warnings>>
    /\ ServiceFrame

NextScores == CallPairDocumentsOfTwo

SpecScores == InitScores /\ [][NextScores]_vars

-----------------------------------------------------------------------------
(* pairDocuments applied to Invoices that compete for TripSheets *)

MaxPairDocs == 4

\* a taxi Invoice that scores 100, 75 and 50 with the three TripSheets, an
\* Invoice that scores 50 with each of them and one that scores below 50
PairTemplates ==
    { Doc(0, 0, "invoice", MD(11, 3), Yuan(219) + 670, "taxi", "", RuqiChuxing, << >>, << >>, 95, "completed", ""),
      Doc(0, 0, "invoice", Text(1), Yuan(219) + 670, "", "", << >>, << >>, << >>, 60, "completed", ""),
      Doc(0, 0, "invoice", MD(11, 3), Yuan(300), "hotel", "", << >>, << >>, << >>, 90, "completed", ""),
      Doc(0, 0, "trip_sheet", MD(11, 3), Yuan(219) + 670, "", "", << >>, << >>, RuqiChuxing, 90, "completed", ""),
      Doc(0, 0, "trip_sheet", MD(11, 4), Yuan(219) + 670, "", "", << >>, << >>, << >>, 90, "completed", ""),
      Doc(0, 0, "trip_sheet", MD(11, 20), Yuan(219) + 670, "", "", << >>, << >>, << >>, 90, "completed", "") }

InitPairing ==
    /\ pc = "pair_input"
    /\ files = << >>
    /\ documents \in {WithIds(f) : f \in UNION {[1..n -> PairTemplates] : n \in 0..MaxPairDocs}}
    /\ Idle

CallPairDocumentsGreedy ==
    /\ pc = "pair_input"
    /\ pairs' = pairDocuments(documents)
    /\ calls' = [calls EXCEPT !.pair = @ + 1]
    /\ pc' = "pair_output"
    /\ UNCHANGED <<sorting, warnings>>
    /\ ServiceFrame

NextPairing == CallPairDocumentsGreedy

SpecPairing == InitPairing /\ [][NextPairing]_vars

-----------------------------------------------------------------------------
(* sortDocuments applied to buckets of several units *)

MaxSortDocs == 4

\* a taxi bucket of a unit with a Pair and a single Invoice, and Invoices and
\* unmatched TripSheets of the other bucket, with equal dates and without date
SortTemplates ==
    { Doc(0, 0, "invoice", MD(11, 3), Yuan(219) + 670, "taxi", "", RuqiChuxing, << >>, << >>, 95, "completed", ""),
      Doc(0, 0, "invoice", Dash(2026, 11, 1), Yuan(100), "taxi", "", << >>, << >>, << >>, 90, "completed", ""),
      Doc(0, 0, "invoice", Slash(2026, 11, 3), Yuan(100), "", "", << >>, << >>, << >>, 90, "completed", ""),
      Doc(0, 0, "invoice", Text(1), Yuan(100), "", "", << >>, << >>, << >>, 60, "completed", ""),
      Doc(0, 0, "trip_sheet", MD(11, 3), Yuan(219) + 670, "", "", << >>, << >>, RuqiChuxing, 90, "completed", ""),
      Doc(0, 0, "trip_sheet", MD(11, 3), Yuan(50), "", "", << >>, << >>, << >>, 90, "completed", ""),
      Doc(0, 0, "trip_sheet", Text(2), Yuan(50), "", "", << >>, << >>, << >>, 90, "completed", "") }

InitSorting ==
    /\ pc = "sort_input"
    /\ files = << >>
    /\ documents \in {WithIds(f) : f \in UNION {[1..n -> SortTemplates] : n \in 0..MaxSortDocs}}
    /\ Idle

\* the caller pairs the Records and hands the result to sortDocuments
CallPairThenSort ==
    /\ pc = "sort_input"
    /\ pairs' = pairDocuments(documents)
    /\ sorting' = sortDocuments(documents, pairDocuments(documents))
    /\ calls' = [calls EXCEPT !.pair = @ + 1, !.sort = @ + 1]
    /\ pc' = "sort_output"
    /\ UNCHANGED warnings
    /\ ServiceFrame

NextSorting == CallPairThenSort

SpecSorting == InitSorting /\ [][NextSorting]_vars

-----------------------------------------------------------------------------
(* AIService.recognizeDocument, one call: operation, handleAPIError and     *)
(* retryWithBackoff attempt by attempt                                       *)

\* what one attempt meets.  An AxiosError has a code and the HTTP status of
\* its response (0 when there is no response); "other" is a thrown value that
\* is no AxiosError; a response has the content of its first choice
AxiosError(code, status) == [kind |-> "axios", code |-> code, status |-> status, content |-> "none"]

\* the outcomes of an attempt told apart: an AxiosError without a response, an
\* error that is no AxiosError, an AxiosError with an HTTP status, or a response
\* with a content.  Of the contents "empty" is '' or undefined, "no_json" is
\* text that JSON.parse rejects, "no_documentType", "no_date" and "no_amount"
\* are objects without that field, "record" is an object with the three fields
Attempts ==
    LET OtherError == [kind |-> "other", code |-> "", status |-> 0, content |-> "none"]
        Response(content) == [kind |-> "response", code |-> "", status |-> 200, content |-> content]
        Contents == {"empty", "no_json", "no_documentType", "no_date", "no_amount", "record"}
        HttpStatuses == {400, 401, 403, 404, 429, 500, 503}
    IN  {AxiosError("ECONNABORTED", 0), AxiosError("ETIMEDOUT", 0), AxiosError("ERR_NETWORK", 0), OtherError}
        \cup {AxiosError(IF s >= 500 THEN "ERR_BAD_RESPONSE" ELSE "ERR_BAD_REQUEST", s) : s \in HttpStatuses}
        \cup {Response(c) : c \in Contents}

AIError(type, retryable) == [kind |-> "AIError", type |-> type, retryable |-> retryable]

\* the result of a call that returns or throws
Returned == [thrown |-> FALSE, error |-> AIError("none", FALSE)]

Throws(error) == [thrown |-> TRUE, error |-> error]

\* parseAIResponse: every failure inside its try is rethrown as PARSING_ERROR
parseAIResponse(content) ==
    IF content = "record" THEN Returned ELSE Throws(AIError("PARSING_ERROR", FALSE))

\* handleAPIError with HTTP 401 and 403 taken for retryable
handleAPIErrorRetriesCredential(error) ==
    IF error.kind = "axios"
    THEN IF error.code = "ECONNABORTED" \/ error.code = "ETIMEDOUT" THEN AIError("TIMEOUT", TRUE)
         ELSE IF error.status = 0 THEN AIError("NETWORK_ERROR", TRUE)
         ELSE IF error.status = 401 \/ error.status = 403 THEN AIError("API_KEY_INVALID", TRUE)
         ELSE IF error.status = 429 THEN AIError("RATE_LIMIT_EXCEEDED", TRUE)
         ELSE AIError("NETWORK_ERROR", error.status >= 500)
    ELSE AIError("NETWORK_ERROR", FALSE)

\* handleAPIError: an error that is no AxiosError, an AIError included, becomes
\* a NETWORK_ERROR that is not retryable
handleAPIError(error) ==
    IF error.kind = "axios"
    THEN IF error.code = "ECONNABORTED" \/ error.code = "ETIMEDOUT" THEN AIError("TIMEOUT", TRUE)
         ELSE IF error.status = 0 THEN AIError("NETWORK_ERROR", TRUE)
         ELSE IF error.status = 401 \/ error.status = 403 THEN AIError("API_KEY_INVALID", FALSE)
         ELSE IF error.status = 429 THEN AIError("RATE_LIMIT_EXCEEDED", TRUE)
         ELSE AIError("NETWORK_ERROR", error.status >= 500)
    ELSE AIError("NETWORK_ERROR", FALSE)

\* the operation of recognizeDocument: the whole body is inside a try whose
\* catch throws handleAPIError(error)
operation(attempt) ==
    IF attempt.kind # "response" THEN Throws(handleAPIError(attempt))
    ELSE IF attempt.content = "empty" THEN Throws(handleAPIError(AIError("PARSING_ERROR", FALSE)))
    ELSE LET parsed == parseAIResponse(attempt.content)
         IN  IF parsed.thrown THEN Throws(handleAPIError(parsed.error)) ELSE Returned

\* errors holds, per failed attempt of the call, what the attempt met and the
\* error operation threw
InitRecognize ==
    /\ pc = "rec_call"
    /\ files = << >>
    /\ documents = << >>
    /\ Idle

RecognizeFrame == UNCHANGED <<apiConfig, selectedForPairing, recognizedPages, files, fileIdx, pages, pageIdx, pageDocs, progress, calls, pairs, sorting, warnings>>

\* retryWithBackoff(operation) with retryCount 0
RecognizeCalled ==
    /\ pc = "rec_call"
    /\ attempts' = 1
    /\ inFlight' = inFlight + 1
    /\ pc' = "rec_awaiting"
    /\ UNCHANGED <<retryCount, delays, documents, errors, outcome>>
    /\ RecognizeFrame

\* operation returns the Record
RecognizeReturns ==
    /\ pc = "rec_awaiting"
    /\ \E attempt \in Attempts :
        /\ ~operation(attempt).thrown
        /\ documents' = <<[TaxiInvoice EXCEPT !.id = DocId(1, 1), !.fileName = 1]>>
    /\ inFlight' = inFlight - 1
    /\ outcome' = "returned"
    /\ pc' = "rec_done"
    /\ UNCHANGED <<retryCount, delays, attempts, errors>>
    /\ RecognizeFrame

\* operation throws: the catch of retryWithBackoff waits, or throws the error on
RecognizeThrows ==
    /\ pc = "rec_awaiting"
    /\ \E attempt \in Attempts :
        LET result == operation(attempt)
        IN  /\ result.thrown
            /\ errors' = Append(errors, [attempt |-> attempt, error |-> result.error])
            /\ IF result.error.kind = "AIError" /\ result.error.retryable /\ retryCount < MAX_RETRIES
               THEN /\ delays' = Append(delays, INITIAL_RETRY_DELAY * 2 ^ retryCount)
                    /\ pc' = "rec_delaying"
                    /\ UNCHANGED outcome
               ELSE /\ outcome' = "thrown"
                    /\ pc' = "rec_done"
                    /\ UNCHANGED delays
    /\ inFlight' = inFlight - 1
    /\ UNCHANGED <<retryCount, attempts, documents>>
    /\ RecognizeFrame

\* the delay is over: retryWithBackoff(operation, retryCount + 1)
RecognizeRetries ==
    /\ pc = "rec_delaying"
    /\ retryCount' = retryCount + 1
    /\ attempts' = attempts + 1
    /\ inFlight' = inFlight + 1
    /\ pc' = "rec_awaiting"
    /\ UNCHANGED <<delays, documents, errors, outcome>>
    /\ RecognizeFrame

NextRecognize ==
    \/ RecognizeCalled
    \/ RecognizeReturns
    \/ RecognizeThrows
    \/ RecognizeRetries

SpecRecognize == InitRecognize /\ [][NextRecognize]_vars

-----------------------------------------------------------------------------
(* detectDuplicates applied to Invoices of near amounts and dates *)

MaxDuplicates == 4

\* Invoices of 100.000, 100.004 and 100.006 (two decimals: 100.00, 100.00 and
\* 100.01), of one day spelled '11/03' and '2026-11-03', without a number and
\* with the number A, and a TripSheet of the same amount and date
InitDuplicates ==
    LET DuplicateTemplates ==
            { Doc(0, 0, "invoice", MD(11, 3), Yuan(100), "", "", << >>, << >>, << >>, 90, "completed", ""),
              Doc(0, 0, "invoice", MD(11, 3), Yuan(100) + 4, "", "", << >>, << >>, << >>, 90, "completed", ""),
              Doc(0, 0, "invoice", MD(11, 3), Yuan(100) + 6, "", "", << >>, << >>, << >>, 90, "completed", ""),
              Doc(0, 0, "invoice", Dash(2026, 11, 3), Yuan(100), "", "", << >>, << >>, << >>, 90, "completed", ""),
              Doc(0, 0, "invoice", MD(11, 3), Yuan(100), "", "A", << >>, << >>, << >>, 90, "completed", ""),
              Doc(0, 0, "invoice", MD(11, 3), Yuan(100) + 4, "", "A", << >>, << >>, << >>, 90, "completed", ""),
              Doc(0, 0, "trip_sheet", MD(11, 3), Yuan(100), "", "", << >>, << >>, << >>, 90, "completed", "") }
    IN  /\ pc = "duplicates"
        /\ files = << >>
        /\ documents \in {WithIds(f) : f \in UNION {[1..n -> DuplicateTemplates] : n \in 0..MaxDuplicates}}
        /\ Idle

CallDetectDuplicates ==
    /\ pc = "duplicates"
    /\ warnings' = detectDuplicates(documents)
    /\ pc' = "duplicates_done"
    /\ UNCHANGED <<calls, pairs, sorting>>
    /\ ServiceFrame

SpecDuplicates == InitDuplicates /\ [][CallDetectDuplicates]_vars

-----------------------------------------------------------------------------
(* The client: App and DocumentList over the store (documents, pairs)       *)

MaxClientDocs == 3

\* the Records of a batch result: an Invoice and a TripSheet that pairDocuments
\* joins, and an Invoice and a TripSheet it leaves unmatched
ClientBatches ==
    LET ClientTemplates ==
            { TaxiInvoice,
              TripSheet,
              Doc(0, 0, "invoice", Dash(2026, 11, 1), Yuan(500), "hotel", "INV002", << >>, << >>, << >>, 90, "completed", ""),
              Doc(0, 0, "trip_sheet", Slash(2026, 11, 5), Yuan(300), "", "", << >>, << >>, <<"di", "di">>, 85, "completed", "") }
    IN  {WithIds(f) : f \in UNION {[1..n -> ClientTemplates] : n \in 1..MaxClientDocs}}

\* the store before a batch result is loaded: documents [], pairs null (the
\* DocumentList, and with it every pair and unpair button, is shown only when
\* there are documents; NoPairs is what App hands down for null)
InitClient ==
    /\ pc = "client_empty"
    /\ files = << >>
    /\ documents = << >>
    /\ Idle

ClientFrame == UNCHANGED <<apiConfig, recognizedPages, files, fileIdx, pages, pageIdx, pageDocs, retryCount, delays, attempts, inFlight, errors, progress, calls, sorting, outcome>>

\* DocumentList.isPaired
isPaired(documentId) ==
    \E p \in 1..Len(pairs.pairs) :
        pairs.pairs[p].invoiceId = documentId \/ pairs.pairs[p].tripSheetId = documentId

\* App.handleStartProcessing after batchProcess resolved: addDocuments,
\* setPairs, setWarnings with the result of the server
LoadBatchResult ==
    /\ pc = "client_empty"
    /\ \E result \in ClientBatches :
        /\ documents' = documents \o result
        /\ pairs' = pairDocuments(result)
        /\ warnings' = detectAnomalies(result, <<pairDocuments(result)>>)
    /\ pc' = "client_loaded"
    /\ UNCHANGED selectedForPairing
    /\ ClientFrame

\* App.handlePairDocuments: the new value of the store's pairs
handlePairDocuments(doc1Id, doc2Id) ==
    [pairs EXCEPT !.pairs = Append(@, [invoiceId |-> doc1Id, tripSheetId |-> doc2Id, confidence |-> 100])]

\* App.handleUnpairDocuments: the new value of the store's pairs
handleUnpairDocuments(documentId) ==
    [pairs EXCEPT !.pairs = SelectSeq(@, LAMBDA p : p.invoiceId # documentId /\ p.tripSheetId # documentId)]

\* the pair button of a card (shown when the Record is not paired) is clicked:
\* DocumentList.handlePair
ClickPair ==
    /\ pc = "client_loaded"
    /\ \E k \in 1..Len(documents) :
        /\ ~isPaired(documents[k].id)
        /\ IF selectedForPairing # << >>
           THEN /\ pairs' = handlePairDocuments(selectedForPairing[1], documents[k].id)
                /\ selectedForPairing' = << >>
           ELSE /\ selectedForPairing' = <<documents[k].id>>
                /\ UNCHANGED pairs
    /\ UNCHANGED <<pc, documents, warnings>>
    /\ ClientFrame

\* the unpair button of a card (shown when the Record is paired) is clicked:
\* DocumentList.handleUnpair
ClickUnpair ==
    /\ pc = "client_loaded"
    /\ \E k \in 1..Len(documents) :
        /\ isPaired(documents[k].id)
        /\ pairs' = handleUnpairDocuments(documents[k].id)
    /\ UNCHANGED <<pc, selectedForPairing, documents, warnings>>
    /\ ClientFrame

\* the cancel link of the pairing mode indicator
CancelPairing ==
    /\ pc = "client_loaded"
    /\ selectedForPairing # << >>
    /\ selectedForPairing' = << >>
    /\ UNCHANGED <<pc, documents, pairs, warnings>>
    /\ ClientFrame

NextClient ==
    \/ LoadBatchResult
    \/ ClickPair
    \/ ClickUnpair
    \/ CancelPairing

SpecClient == InitClient /\ [][NextClient]_vars

-----------------------------------------------------------------------------
(* Properties *)

IdsOfKind(kind) == {documents[k].id : k \in {j \in 1..Len(documents) : documents[j].documentType = kind}}

NoRepeat(s) == Cardinality(Range(s)) = Len(s)

\* C1: pairDocuments puts no Record id in more than one Pair, every Pair joins
\* an Invoice id with a TripSheet id, and per kind the paired ids and the
\* unmatched ids are disjoint and together exactly the input ids of that kind
C1_PairingPartition ==
    pc \in {"paired", "sorted", "detected"} =>
        LET P == pairs.pairs
            pairedInvoices == {P[a].invoiceId : a \in 1..Len(P)}
            pairedTripSheets == {P[a].tripSheetId : a \in 1..Len(P)}
        IN  /\ \A a, b \in 1..Len(P) :
                   a # b => /\ P[a].invoiceId # P[b].invoiceId
                            /\ P[a].tripSheetId # P[b].tripSheetId
            /\ \A a \in 1..Len(P) : /\ P[a].invoiceId \in IdsOfKind("invoice")
                                    /\ P[a].tripSheetId \in IdsOfKind("trip_sheet")
            /\ pairedInvoices \cap pairedTripSheets = {}
            /\ pairedInvoices \cap Range(pairs.unmatchedInvoices) = {}
            /\ pairedInvoices \cup Range(pairs.unmatchedInvoices) = IdsOfKind("invoice")
            /\ NoRepeat(pairs.unmatchedInvoices)
            /\ pairedTripSheets \cap Range(pairs.unmatchedTripSheets) = {}
            /\ pairedTripSheets \cup Range(pairs.unmatchedTripSheets) = IdsOfKind("trip_sheet")
            /\ NoRepeat(pairs.unmatchedTripSheets)

\* pairDocuments has formed a Pair and left an Invoice and a TripSheet unmatched
C1_Witness ==
    /\ pc = "paired"
    /\ Len(pairs.pairs) >= 1
    /\ pairs.unmatchedInvoices # << >>
    /\ pairs.unmatchedTripSheets # << >>

\* C2: suggestedOrder is a permutation of the input ids: same length, every
\* input id exactly once, no other id
C2_OrderIsPermutation ==
    pc \in {"sorted", "detected"} =>
        LET order == sorting.suggestedOrder
        IN  /\ Len(order) = Len(documents)
            /\ \A d \in 1..Len(documents) :
                   Cardinality({k \in 1..Len(order) : order[k] = documents[d].id}) = 1
            /\ Range(order) \subseteq Range(Ids(documents))

\* sortDocuments has ordered Records with a Pair, an unpaired TripSheet and
\* Invoices of two categories
C2_Witness ==
    /\ pc = "sorted"
    /\ Len(documents) >= 4
    /\ Len(pairs.pairs) >= 1
    /\ pairs.unmatchedTripSheets # << >>
    /\ Cardinality(DOMAIN sorting.grouping) >= 2

\* C3: for every Pair the TripSheet id stands directly after its Invoice id
\* in suggestedOrder
C3_PairAdjacent ==
    pc \in {"sorted", "detected"} =>
        LET order == sorting.suggestedOrder
        IN  \A a \in 1..Len(pairs.pairs) :
                \E k \in 1..(Len(order) - 1) :
                    /\ order[k] = pairs.pairs[a].invoiceId
                    /\ order[k + 1] = pairs.pairs[a].tripSheetId

\* a Pair whose TripSheet stood before its Invoice in the input and whose
\* Invoice has an unparseable date, in a bucket with a further dated Record
C3_Witness ==
    /\ pc = "sorted"
    /\ \E a \in 1..Len(pairs.pairs) :
           /\ pairs.pairs[a].tripSheetId < pairs.pairs[a].invoiceId
           /\ ~parseDate(documents[pairs.pairs[a].invoiceId].date).ok
           /\ parseDate(documents[pairs.pairs[a].tripSheetId].date).ok
    /\ pairs.unmatchedTripSheets # << >>

FilesFailed == {errors[k].fileName : k \in 1..Len(errors)}

ErrorDocs == SelectSeq(documents, LAMBDA d : d.status = "error")

DocsOfFile(f) == SelectSeq(documents, LAMBDA d : d.fileName = f)

AllStagesOnce == [pair |-> 1, sort |-> 1, detect |-> 1]

\* C4: if recognition fails for every file of a non-empty batch, processBatch
\* runs none of Matching, Sequencing and Anomaly, reports the error phase and
\* rejects; if at least one file succeeds it runs all three over all Records
C4_AllFailedAborts ==
    (pc = "done" /\ Len(files) > 0) =>
        IF Cardinality(FilesFailed) = Len(files)
        THEN /\ outcome = "thrown"
             /\ calls = NoCalls
             /\ progress[Len(progress)] = "error"
        ELSE /\ outcome = "returned"
             /\ calls = AllStagesOnce

\* C5: a retryable failure is retried at most MAX_RETRIES times after the first
\* attempt, the delays are INITIAL_RETRY_DELAY, doubled each time, and when the
\* last retry fails too the error is thrown and the file fails
C5_RetryBackoff ==
    /\ [](/\ retryCount <= MAX_RETRIES
          /\ attempts <= MAX_RETRIES + 1
          /\ Len(delays) <= MAX_RETRIES
          /\ \A k \in 1..Len(delays) :
                 delays[k] = IF k = 1 THEN INITIAL_RETRY_DELAY ELSE 2 * delays[k - 1])
    /\ [][/\ (pc = "awaiting" /\ retryCount = MAX_RETRIES) =>
                 pc' \notin {"delaying", "awaiting"}
          /\ (pc = "awaiting" /\ pc' = "delaying") =>
                 (Len(delays') = Len(delays) + 1 /\ Len(delays') = retryCount + 1)
          /\ (Len(errors') > Len(errors) /\ errors'[Len(errors')].error = "retryable_error") =>
                 /\ attempts = MAX_RETRIES + 1
                 /\ delays = <<INITIAL_RETRY_DELAY, 2 * INITIAL_RETRY_DELAY, 4 * INITIAL_RETRY_DELAY>>
                 /\ errors'[Len(errors')].fileName = fileIdx
                 /\ fileIdx' = fileIdx + 1
                 /\ documents'[Len(documents')].status = "error"]_vars

\* a file has failed because its last retry failed with a retryable error
C5_Witness ==
    /\ pc = "loop"
    /\ errors # << >>
    /\ errors[Len(errors)].error = "retryable_error"
    /\ documents[Len(documents)].status = "error"

\* C6: the recognition calls in flight never exceed the configured maximum, and
\* the files are recognized concurrently up to it: a file waits for its
\* recognition only while every slot is taken
C6_ConcurrentUpToBound ==
    /\ inFlight <= MaxConcurrent
    /\ (pc = "awaiting" /\ fileIdx < Len(files)) => inFlight = MaxConcurrent

\* C7: every failed file has exactly one perFileErrors entry and exactly one
\* placeholder Record (status error, amount 0, confidence 0, empty date, the
\* error message) and no other Record, every other file that was processed has
\* completed Records only, and every processed file has at least one Record
C7_OnePlaceholderPerFailure ==
    /\ NoRepeat([k \in 1..Len(errors) |-> errors[k].fileName])
    /\ Len(ErrorDocs) = Len(errors)
    /\ \A k \in 1..Len(errors) :
           /\ errors[k].fileName < fileIdx
           /\ DocsOfFile(errors[k].fileName) = <<ErrorDocs[k]>>
           /\ ErrorDocs[k].amount = 0
           /\ ErrorDocs[k].confidence = 0
           /\ ErrorDocs[k].date = EmptyDate
           /\ ErrorDocs[k].errorMessage = errors[k].error
    /\ \A f \in 1..Len(files) :
           /\ (f < fileIdx /\ f \notin FilesFailed) =>
                  \A k \in 1..Len(DocsOfFile(f)) : DocsOfFile(f)[k].status = "completed"
           /\ f < fileIdx => Len(DocsOfFile(f)) >= 1
           /\ f >= fileIdx => DocsOfFile(f) = << >>

\* the batch is over, one file failed and a file of several pages was recognized
C7_Witness ==
    /\ pc = "done"
    /\ errors # << >>
    /\ Len(errors) < Len(files)
    /\ \E f \in 1..Len(files) : Len(DocsOfFile(f)) > 1

\* C8: a failed file does not stop the batch: all files are processed, and
\* when a file succeeded processBatch returns with Matching, Sequencing and
\* Anomaly executed over all Records, placeholders included; 3 single-page
\* files with file 2 failing non-retryably give 3 Records, one of them with
\* status error
C8_FailureDoesNotStopBatch ==
    /\ (pc = "done" /\ Cardinality(FilesFailed) < Len(files)) =>
           /\ outcome = "returned"
           /\ fileIdx = Len(files) + 1
           /\ \A f \in 1..Len(files) : DocsOfFile(f) # << >>
           /\ Len(ErrorDocs) = Cardinality(FilesFailed)
           /\ calls = AllStagesOnce
           /\ pairs = pairDocuments(documents)
           /\ sorting = sortDocuments(documents, pairs)
           /\ Len(sorting.suggestedOrder) = Len(documents)
           /\ warnings = detectAnomalies(documents, <<pairs>>)
    /\ (/\ pc = "done"
        /\ Len(files) = 3
        /\ errors = <<[fileName |-> 2, error |-> "fatal_error"]>>
        /\ Len(DocsOfFile(1)) = 1 /\ Len(DocsOfFile(3)) = 1) =>
           /\ Len(documents) = 3
           /\ Len(ErrorDocs) = 1
           /\ documents[2].status = "error"

\* 3 files, file 2 failed non-retryably, the batch has returned
C8_Witness ==
    /\ pc = "done"
    /\ outcome = "returned"
    /\ Len(files) = 3
    /\ errors = <<[fileName |-> 2, error |-> "fatal_error"]>>
    /\ Len(documents) = 3
    /\ documents[3].status = "completed"

\* C9: in a run that returns, the notified stages are recognizing (once at the
\* start and once per file), pairing, sorting, detecting, completed, the last
\* four once each; pairDocuments is not called before the recognition of the
\* last file has resolved, and each reconciliation stage runs exactly once
C9_StageOrder ==
    /\ outcome = "returned" =>
           /\ progress = [k \in 1..(Len(files) + 1) |-> "recognizing"]
                         \o <<"pairing", "sorting", "detecting", "completed">>
           /\ calls = AllStagesOnce
    /\ calls.pair <= 1 /\ calls.sort <= calls.pair /\ calls.detect <= calls.sort
    /\ calls.pair = 1 => (fileIdx > Len(files) /\ inFlight = 0 /\ pageIdx = 0)

\* a batch of several files, one of them failed, has returned
C9_Witness ==
    /\ outcome = "returned"
    /\ Len(files) >= 2
    /\ errors # << >>
    /\ Len(documents) > Len(files)

ScenarioDAmounts == <<Yuan(100), Yuan(102), Yuan(105), Yuan(5000)>>

\* C10: for a category whose Invoices have the amounts 100, 102, 105 and 5000,
\* detectAmountAnomalies flags only the 5000 Invoice, with high severity
C10_ScenarioD ==
    (/\ pc = "amounts_done"
     /\ Len(documents) = 4
     /\ \A k \in 1..4 : documents[k].invoiceType = "hotel"
     /\ \A a \in Range(ScenarioDAmounts) : \E k \in 1..4 : documents[k].amount = a) =>
        /\ Len(warnings) = 1
        /\ warnings[1].type = "amount_anomaly"
        /\ warnings[1].severity = "high"
        /\ \E k \in 1..4 : documents[k].amount = Yuan(5000) /\ warnings[1].documentIds = <<documents[k].id>>

\* the Invoices of the input that are in the type group of the Invoice d
SameTypeInvoices(d) ==
    SelectSeq(documents, LAMBDA e : e.documentType = "invoice" /\ TypeOf(e) = TypeOf(d))

\* C11: an Invoice whose category (an absent one counting as other) has fewer
\* than MinSamples Invoices is in no amount_anomaly warning, whatever the amounts
C11_SmallCategoryNoAnomaly ==
    pc \in {"amounts_done"} =>
        \A k \in 1..Len(documents) :
            Len(SameTypeInvoices(documents[k])) < MinSamples =>
                \A w \in 1..Len(warnings) :
                    warnings[w].type = "amount_anomaly" => documents[k].id \notin Range(warnings[w].documentIds)

\* the only Invoice without a category has an amount far below the three
\* Invoices of the other category
C11_Witness ==
    /\ pc = "amounts_done"
    /\ Len(documents) = 4
    /\ \E k \in 1..4 :
           /\ documents[k].invoiceType = "" /\ documents[k].amount = Yuan(100)
           /\ \A j \in (1..4) \ {k} :
                  documents[j].invoiceType = "hotel" /\ documents[j].amount = Yuan(5000)

WarningsOfType(type) == SelectSeq(warnings, LAMBDA w : w.type = type)

\* the ids of the Invoices that carry the number
InvoicesNumbered(number) ==
    {documents[k].id : k \in {j \in 1..Len(documents) :
        documents[j].documentType = "invoice" /\ documents[j].invoiceNumber = number}}

\* C12: for every invoice number carried by more than one Invoice there is
\* exactly one duplicate warning that names one of these Invoices; it has high
\* severity and names exactly these Invoices, each once; two Invoices sharing
\* INV001 and nothing else give exactly one duplicate warning
C12_OneWarningPerNumber ==
    pc \in {"detected", "detected_alone"} =>
        LET dup == WarningsOfType("duplicate")
        IN  /\ \A k \in 1..Len(documents) :
                   LET group == InvoicesNumbered(documents[k].invoiceNumber)
                       naming == {w \in 1..Len(dup) : Range(dup[w].documentIds) \cap group # {}}
                   IN  (/\ documents[k].documentType = "invoice"
                        /\ documents[k].invoiceNumber # ""
                        /\ Cardinality(group) > 1) =>
                           /\ Cardinality(naming) = 1
                           /\ \A w \in naming :
                                  /\ dup[w].severity = "high"
                                  /\ Range(dup[w].documentIds) = group
                                  /\ NoRepeat(dup[w].documentIds)
            /\ (/\ Len(documents) = 2
                 /\ \A k \in 1..2 : documents[k].documentType = "invoice"
                                      /\ documents[k].invoiceNumber = "INV001") =>
                    Len(dup) = 1

\* two Invoices of different amount and date share a number, two Invoices
\* without number share amount and date: one high and one medium warning
C12_Witness ==
    /\ pc = "detected"
    /\ \E j, k \in 1..Len(documents) :
           /\ documents[j].invoiceNumber = "INV001" /\ documents[k].invoiceNumber = "INV001"
           /\ documents[j].amount # documents[k].amount
    /\ \E w \in 1..Len(warnings) : warnings[w].type = "duplicate" /\ warnings[w].severity = "high"
    /\ \E w \in 1..Len(warnings) : warnings[w].type = "duplicate" /\ warnings[w].severity = "medium"

\* the date of the Record with the id, a day number
DayOf(id) == parseDate(documents[CHOOSE k \in 1..Len(documents) : documents[k].id = id].date).t

\* the ids of the Records whose date parses
DatedIds == {documents[k].id : k \in {j \in 1..Len(documents) : parseDate(documents[j].date).ok}}

\* the pairs of days that follow each other in the ascending order of the
\* days of the dated Records and lie more than 7 days apart
WideGaps ==
    {g \in {DayOf(x) : x \in DatedIds} \X {DayOf(x) : x \in DatedIds} :
        /\ g[2] - g[1] > 7
        /\ \A x \in DatedIds : ~(g[1] < DayOf(x) /\ DayOf(x) < g[2])}

\* C13: the date_gap warnings are exactly one per two Records that are
\* consecutive in date order and more than 7 days apart: each names two dated
\* Records, the earlier first, with no dated Record between them, has severity
\* high above 30 days, medium above 14, low otherwise; no warning names a
\* Record whose date does not parse; 2024-01-01 and 2024-02-15 give one high
\* warning
C13_DateGaps ==
    pc = "dates_done" =>
        /\ \A w \in 1..Len(warnings) :
               /\ warnings[w].type = "date_gap"
               /\ Len(warnings[w].documentIds) = 2
               /\ Range(warnings[w].documentIds) \subseteq DatedIds
               /\ <<DayOf(warnings[w].documentIds[1]), DayOf(warnings[w].documentIds[2])>> \in WideGaps
               /\ LET gapDays == DayOf(warnings[w].documentIds[2]) - DayOf(warnings[w].documentIds[1])
                  IN  warnings[w].severity =
                          IF gapDays > 30 THEN "high" ELSE IF gapDays > 14 THEN "medium" ELSE "low"
        /\ \A g \in WideGaps :
               Cardinality({w \in 1..Len(warnings) :
                   /\ DayOf(warnings[w].documentIds[1]) = g[1]
                   /\ DayOf(warnings[w].documentIds[2]) = g[2]}) = 1
        /\ (/\ Len(documents) = 2
             /\ documents[1].date = Dash(2024, 1, 1)
             /\ documents[2].date = Dash(2024, 2, 15)) =>
                (Len(warnings) = 1 /\ warnings[1].severity = "high")

\* Records given out of date order, one of them without a date: a low
\* warning and a high one
C13_Witness ==
    /\ pc = "dates_done"
    /\ Len(documents) = 4
    /\ documents[1].date = Dash(2024, 2, 15)
    /\ documents[2].date = Text(1)
    /\ documents[3].date = Slash(2024, 1, 9)
    /\ documents[4].date = Dash(2024, 1, 1)
    /\ Len(warnings) = 2
    /\ warnings[1].severity = "low"
    /\ warnings[2].severity = "high"

\* the score as the claim states it: 50 for amounts at most 0.01 apart, 30, 25,
\* 20 or 10 for dates 0, 1, 2-3 or 4-7 days apart, 20 for a taxi Invoice
\* whose vendor or description holds the platform name or an alias of it
StatedScore(invoice, tripSheet) ==
    LET d1 == parseDate(invoice.date)
        d2 == parseDate(tripSheet.date)
        days == Abs(d1.t - d2.t)
        names == extractPlatformKeywords(tripSheet.platform)
    IN  (IF Abs(invoice.amount - tripSheet.amount) <= Tolerance THEN 50 ELSE 0)
        + (IF ~d1.ok \/ ~d2.ok THEN 0
           ELSE IF days = 0 THEN 30
           ELSE IF days = 1 THEN 25
           ELSE IF days <= 3 THEN 20
           ELSE IF days <= 7 THEN 10
           ELSE 0)
        + (IF /\ invoice.invoiceType = "taxi"
              /\ tripSheet.platform # << >>
              /\ \E n \in 1..Len(names) :
                     \/ Includes(ToLowerCase(invoice.vendor), ToLowerCase(names[n]))
                     \/ Includes(ToLowerCase(invoice.description), ToLowerCase(names[n]))
           THEN 20 ELSE 0)

\* C14: pairDocuments pairs an Invoice and a TripSheet exactly when their
\* stated score is at least 50, the confidence of the Pair is that score and
\* lies in 50..100, and the taxi Invoice and the TripSheet of Scenario A
\* (219.67, 11/03, the same platform) give one Pair of confidence 100
C14_ScoreAndConfidence ==
    pc = "score_paired" =>
        LET score == StatedScore(documents[1], documents[2])
        IN  /\ score >= MinScore =>
                   pairs.pairs = <<[invoiceId |-> documents[1].id,
                                    tripSheetId |-> documents[2].id,
                                    confidence |-> score]>>
            /\ score < MinScore => pairs.pairs = << >>
            /\ \A k \in 1..Len(pairs.pairs) : pairs.pairs[k].confidence \in 50..100
            /\ (/\ documents[1] = [TaxiInvoice EXCEPT !.id = 1, !.fileName = 1, !.invoiceNumber = "", !.confidence = 90]
                 /\ documents[2] = [TripSheet EXCEPT !.id = 2, !.fileName = 2]) =>
                    (Len(pairs.pairs) = 1 /\ pairs.pairs[1].confidence = 100)

\* the positions of the TripSheets that the Invoices before position i got
ClaimedBefore(i) ==
    {t \in 1..Len(documents) :
        \E p \in 1..Len(pairs.pairs) :
            /\ pairs.pairs[p].tripSheetId = documents[t].id
            /\ \E j \in 1..(i - 1) : documents[j].id = pairs.pairs[p].invoiceId}

\* the positions of the TripSheets the Invoice at position i can get: not
\* claimed by an earlier Invoice and with a score of at least 50
Candidates(i) ==
    {t \in 1..Len(documents) :
        /\ documents[t].documentType = "trip_sheet"
        /\ t \notin ClaimedBefore(i)
        /\ calculateMatchScore(documents[i], documents[t]) >= 50}

\* C15: taking the Invoices in input order, each Invoice is paired with the
\* candidate of the highest score, the first in input order among several of
\* that score, and an Invoice without candidate is unmatched and in no Pair
C15_GreedyBestMatch ==
    pc = "pair_output" =>
        \A i \in 1..Len(documents) :
            documents[i].documentType = "invoice" =>
                LET mine == {p \in 1..Len(pairs.pairs) : pairs.pairs[p].invoiceId = documents[i].id}
                IN  IF Candidates(i) = {}
                    THEN /\ mine = {}
                         /\ documents[i].id \in Range(pairs.unmatchedInvoices)
                    ELSE /\ Cardinality(mine) = 1
                         /\ documents[i].id \notin Range(pairs.unmatchedInvoices)
                         /\ \A p \in mine :
                                \E t \in Candidates(i) :
                                    /\ pairs.pairs[p].tripSheetId = documents[t].id
                                    /\ \A u \in Candidates(i) :
                                           LET st == calculateMatchScore(documents[i], documents[t])
                                               su == calculateMatchScore(documents[i], documents[u])
                                           IN  su < st \/ (su = st /\ t <= u)

\* an earlier Invoice has taken, as the first of two TripSheets of equal
\* score, the TripSheet that scores 100 for a later Invoice; the later
\* Invoice got the TripSheet left, which scores 75 for it
C15_Witness ==
    /\ pc = "pair_output"
    /\ Len(documents) = 4
    /\ pairs.pairs = <<[invoiceId |-> 3, tripSheetId |-> 1, confidence |-> 50],
                       [invoiceId |-> 4, tripSheetId |-> 2, confidence |-> 75]>>
    /\ calculateMatchScore(documents[3], documents[2]) = 50
    /\ calculateMatchScore(documents[4], documents[1]) = 100

\* the bucket of the Record at position k of the input: the category of an
\* Invoice (other when absent), for a TripSheet the bucket of the Invoice it
\* is paired with, other when it is unmatched
BucketOf(k) ==
    IF documents[k].documentType = "invoice" THEN TypeOf(documents[k])
    ELSE LET mine == {p \in 1..Len(pairs.pairs) : pairs.pairs[p].tripSheetId = documents[k].id}
         IN  IF mine = {} THEN "other"
             ELSE LET p == CHOOSE q \in mine : TRUE
                  IN  TypeOf(documents[CHOOSE j \in 1..Len(documents) : documents[j].id = pairs.pairs[p].invoiceId])

BucketOfId(id) == BucketOf(CHOOSE k \in 1..Len(documents) : documents[k].id = id)

GroupingList(type) == IF type \in DOMAIN sorting.grouping THEN sorting.grouping[type] ELSE << >>

DocOfId(id) == documents[CHOOSE k \in 1..Len(documents) : documents[k].id = id]

\* the primary Records of the units of a bucket, in the order of the bucket's
\* grouping list: its Invoices and its unmatched TripSheets
UnitPrimaries(type) ==
    SelectSeq(sorting.grouping[type],
              LAMBDA id : \A p \in 1..Len(pairs.pairs) : pairs.pairs[p].tripSheetId # id)

\* the primary dates of the units a and b neither order them
SameDateRank(a, b) ==
    LET da == parseDate(DocOfId(a).date)
        db == parseDate(DocOfId(b).date)
    IN  (~da.ok /\ ~db.ok) \/ (da.ok /\ db.ok /\ da.t = db.t)

\* in every bucket a unit with a date stands before every unit without one
\* and the dates of the units ascend
UnitsAscend ==
    \A t \in DOMAIN sorting.grouping :
        LET prim == UnitPrimaries(t)
        IN  \A a, b \in 1..Len(prim) :
                a < b =>
                    LET da == parseDate(DocOfId(prim[a]).date)
                        db == parseDate(DocOfId(prim[b]).date)
                    IN  db.ok => (da.ok /\ da.t <= db.t)

\* C17 as stated: in every bucket the units ascend by the parsed date of their
\* primary Record, the units without date last, and units of equal date or
\* both without date stand in the relative order of the input (ids are input
\* positions)
C17_UnitsByDateInputOrder ==
    pc = "sort_output" =>
        /\ UnitsAscend
        /\ \A t \in DOMAIN sorting.grouping :
               LET prim == UnitPrimaries(t)
               IN  \A a, b \in 1..Len(prim) :
                       (a < b /\ SameDateRank(prim[a], prim[b])) => prim[a] < prim[b]

\* C17 as amended: units of equal date or both without date stand in the
\* relative order of the bucket before sorting, which is the Invoices in input
\* order followed by the unmatched TripSheets in input order
C17_UnitsByDateBucketOrder ==
    pc = "sort_output" =>
        /\ UnitsAscend
        /\ \A t \in DOMAIN sorting.grouping :
               LET prim == UnitPrimaries(t)
               IN  \A a, b \in 1..Len(prim) :
                       (a < b /\ SameDateRank(prim[a], prim[b])) =>
                           LET ka == DocOfId(prim[a]).documentType
                               kb == DocOfId(prim[b]).documentType
                           IN  \/ (ka = "invoice" /\ kb = "trip_sheet")
                               \/ (ka = kb /\ prim[a] < prim[b])

\* the other bucket holds an unmatched TripSheet that stood first in the input
\* and an Invoice of the same date, and two units without date
C17_Witness ==
    /\ pc = "sort_output"
    /\ Len(documents) = 4
    /\ documents[1].documentType = "trip_sheet" /\ documents[1].date = MD(11, 3)
    /\ documents[2].documentType = "trip_sheet" /\ documents[2].date = Text(2)
    /\ documents[3].date = Text(1)
    /\ documents[4].date = Slash(2026, 11, 3)
    /\ sorting.suggestedOrder = <<4, 1, 3, 2>>

\* the ids of the Records of the kind that are in no Pair
Unpaired(kind) ==
    {id \in IdsOfKind(kind) :
        \A p \in 1..Len(pairs.pairs) :
            pairs.pairs[p].invoiceId # id /\ pairs.pairs[p].tripSheetId # id}

\* C18: without a pairing result detectAnomalies emits no missing_pair
\* warning; with one, the missing_pair warnings are medium, name one Record
\* each, and name exactly once every unmatched taxi Invoice and every
\* unmatched TripSheet and no other Record
C18_MissingPairs ==
    LET missing == WarningsOfType("missing_pair")
    IN  /\ pc = "detected_alone" => missing = << >>
        /\ pc = "detected" =>
               /\ \A w \in 1..Len(missing) :
                      missing[w].severity = "medium" /\ Len(missing[w].documentIds) = 1
               /\ {missing[w].documentIds[1] : w \in 1..Len(missing)}
                      = {id \in Unpaired("invoice") : DocOfId(id).invoiceType = "taxi"}
                        \cup Unpaired("trip_sheet")
               /\ NoRepeat([w \in 1..Len(missing) |-> missing[w].documentIds[1]])

\* next to a Pair there are an unmatched taxi Invoice, which has a warning,
\* and an unmatched hotel Invoice, which has none
C18_Witness ==
    /\ pc = "detected"
    /\ Len(pairs.pairs) = 1
    /\ \E id \in Unpaired("invoice") : DocOfId(id).invoiceType = "taxi"
    /\ \E id \in Unpaired("invoice") : DocOfId(id).invoiceType = "hotel"
    /\ Len(WarningsOfType("missing_pair")) = 1

\* C19: for the empty Record list pairDocuments returns no Pair and empty
\* unmatched lists, and detectAnomalies, with and without a pairing result,
\* returns no warning
C19_EmptyInput ==
    documents = << >> =>
        /\ pc \in {"paired", "sorted", "detected"} =>
               /\ pairs.pairs = << >>
               /\ pairs.unmatchedInvoices = << >>
               /\ pairs.unmatchedTripSheets = << >>
        /\ pc \in {"detected", "detected_alone"} => warnings = << >>

\* the three services have run on the empty list
C19_Witness ==
    /\ documents = << >>
    /\ pc = "detected"
    /\ calls = AllStagesOnce

\* the config is invalid as the claim lists it: no config, a missing endpoint,
\* key or model, a key of fewer than 10 characters, an endpoint that is no URL
StatedInvalid(config) ==
    \/ config.kind = "absent"
    \/ config.endpoint = "absent"
    \/ config.apiKey = 0
    \/ config.model = "absent"
    \/ config.apiKey < 10
    \/ config.endpoint = "text"

\* C20: once the handler has acted on a request with an empty file list or an
\* invalid configuration, the request is rejected with a validation error and
\* processBatch was never entered: no progress notification, no recognition
\* call, no Record, no per-file error, no reconciliation stage
C20_RejectedBeforeRecognition ==
    (pc # "request" /\ (Len(files) = 0 \/ StatedInvalid(apiConfig))) =>
        /\ outcome = "validation_error"
        /\ pc = "done"
        /\ progress = << >>
        /\ attempts = 0 /\ inFlight = 0 /\ retryCount = 0
        /\ fileIdx = 1 /\ pages = 0
        /\ documents = << >>
        /\ errors = << >>
        /\ calls = NoCalls

\* files were uploaded and the config is complete but for a key of 9 characters
C20_Witness ==
    /\ outcome = "validation_error"
    /\ Len(files) = MaxFiles
    /\ apiConfig = Config("object", "url", MinKeyLength - 1, "name")

\* the failure a finished call has thrown, and what its last attempt met
Surfaced == errors[Len(errors)]

MalformedResponse(attempt) == attempt.kind = "response" /\ attempt.content # "record"

\* C21: when the response of the last attempt has an empty content or a content
\* that is no Record (no JSON, or no documentType, date or amount), the failure
\* recognizeDocument throws is a PARSING_ERROR that is not retryable
C21_MalformedIsParsingError ==
    (pc = "rec_done" /\ outcome = "thrown" /\ MalformedResponse(Surfaced.attempt))
        => (Surfaced.error.type = "PARSING_ERROR" /\ ~Surfaced.error.retryable)

\* the failures the classification is stated to retry: a timeout, a network
\* error without response, HTTP 429 and HTTP 500 and above
StatedRetryable(attempt) ==
    /\ attempt.kind = "axios"
    /\ \/ attempt.code \in {"ECONNABORTED", "ETIMEDOUT"}
       \/ attempt.status = 0
       \/ attempt.status = 429
       \/ attempt.status >= 500

\* C22: the error of a failed attempt is retryable exactly when the attempt met a
\* timeout, a network error without response, HTTP 429 or HTTP 500 and above
\* (HTTP 401/403 and every other failure are not); an attempt whose error is not
\* retryable is the last one of the call, no delay follows it, and when it is the
\* first attempt the call ends after exactly one attempt with no delay at all
C22_RetryableClassification ==
    \A k \in 1..Len(errors) :
        /\ errors[k].error.retryable <=> StatedRetryable(errors[k].attempt)
        /\ ~errors[k].error.retryable =>
               /\ k = Len(errors)
               /\ pc = "rec_done" /\ outcome = "thrown"
               /\ attempts = k /\ Len(delays) = k - 1
               /\ (k = 1 => delays = << >>)

C22_Witness ==
    /\ pc = "rec_done" /\ outcome = "thrown"
    /\ Len(errors) = 1
    /\ errors[1].attempt = AxiosError("ERR_BAD_REQUEST", 401)
    /\ errors[1].error = AIError("API_KEY_INVALID", FALSE)
    /\ attempts = 1 /\ delays = << >>

\* C23: when every awaited call settles, processBatch over its finite file list
\* comes to report the completed phase or the error phase; a page never gets
\* more than MAX_RETRIES + 1 attempts
C23_BatchTerminates ==
    /\ [](attempts <= MAX_RETRIES + 1)
    /\ <>(pc = "done" /\ progress[Len(progress)] \in {"completed", "error"})

\* a batch of two files that ended although a page used up all its attempts
C23_Witness ==
    /\ pc = "done"
    /\ Len(files) = 2
    /\ progress[Len(progress)] = "completed"
    /\ \E k \in 1..Len(errors) : errors[k].error = "retryable_error"

\* the Invoices of the second pass: no number, or a number no other Invoice has
LoneNumber(j) ==
    /\ documents[j].documentType = "invoice"
    /\ \/ documents[j].invoiceNumber = ""
       \/ \A k \in DOMAIN documents :
              (k # j /\ documents[k].documentType = "invoice")
                  => documents[k].invoiceNumber # documents[j].invoiceNumber

\* an amount of thousandths in hundredths
Hundredths(amount) == (amount + 5) \div 10

\* the Invoices of the second pass with the amount (2 decimals) and the date
\* string of Invoice j
AmountDateGroup(j) ==
    {k \in DOMAIN documents :
        /\ LoneNumber(k)
        /\ Hundredths(documents[k].amount) = Hundredths(documents[j].amount)
        /\ documents[k].date = documents[j].date}

MediumDuplicatesOf(id) ==
    {n \in DOMAIN warnings :
        /\ warnings[n].type = "duplicate" /\ warnings[n].severity = "medium"
        /\ id \in Range(warnings[n].documentIds)}

\* C24: among the Invoices without a number or with a number of their own, every
\* group of more than one Invoice of the same amount to 2 decimals and the same
\* date string has exactly one medium duplicate warning, whose ids are exactly
\* the ids of the group; an Invoice alone in its group is in none
C24_AmountDateDuplicates ==
    pc = "duplicates_done" =>
        \A j \in DOMAIN documents : LoneNumber(j) =>
            LET group == AmountDateGroup(j)
                found == MediumDuplicatesOf(documents[j].id)
            IN  IF Cardinality(group) > 1
                THEN /\ Cardinality(found) = 1
                     /\ \A n \in found :
                            /\ Range(warnings[n].documentIds) = {documents[k].id : k \in group}
                            /\ Len(warnings[n].documentIds) = Cardinality(group)
                ELSE found = {}

\* 100.000 and 100.004 of '11/03' are one group, 100.006 of '11/03' and 100.000
\* of '2026-11-03' are alone
C24_Witness ==
    /\ pc = "duplicates_done"
    /\ Len(documents) = 4
    /\ documents[1].amount = Yuan(100) /\ documents[2].amount = Yuan(100) + 4
    /\ documents[3].amount = Yuan(100) + 6 /\ documents[4].date = Dash(2026, 11, 3)
    /\ \A j \in 1..4 : documents[j].documentType = "invoice" /\ documents[j].invoiceNumber = ""
    /\ warnings = <<Warning("duplicate", <<1, 2>>, "medium")>>

\* the places of an id in the lists of the grouping
PlacesInGrouping(id) ==
    {<<t, n>> \in Range(InvoiceTypes) \X (1..Len(documents)) :
        /\ t \in DOMAIN sorting.grouping
        /\ n \in DOMAIN sorting.grouping[t]
        /\ sorting.grouping[t][n] = id}

\* C25: the keys of the grouping are exactly the categories with a member; an
\* Invoice id is in the list of its category (other when it has none), a paired
\* TripSheet id in the list of the category of its Invoice, an unpaired TripSheet
\* id in the list of other, and every input id has exactly one place in the lists
C25_GroupingPartition ==
    pc \in {"sorted", "detected"} =>
        /\ DOMAIN sorting.grouping = {BucketOf(k) : k \in 1..Len(documents)}
        /\ \A k \in 1..Len(documents) :
               /\ documents[k].id \in Range(GroupingList(BucketOf(k)))
               /\ Cardinality(PlacesInGrouping(documents[k].id)) = 1

\* a paired TripSheet under taxi with its Invoice, an unpaired TripSheet and an
\* Invoice without category under other, no other key
C25_Witness ==
    /\ pc = "sorted"
    /\ Len(documents) = 4
    /\ documents[1].documentType = "trip_sheet" /\ documents[3].documentType = "trip_sheet"
    /\ documents[4].documentType = "invoice" /\ documents[4].invoiceType = ""
    /\ pairs.pairs = <<[invoiceId |-> 2, tripSheetId |-> 1, confidence |-> 100]>>
    /\ DOMAIN sorting.grouping = {"taxi", "other"}
    /\ sorting.grouping["taxi"] = <<2, 1>>
    /\ Range(sorting.grouping["other"]) = {3, 4}

FirstPages(n) == [k \in 1..n |-> k]

\* the Records a file of n recognized pages contributes: one per page, completed,
\* in page order
PageRecords(f, n) ==
    /\ Len(DocsOfFile(f)) = n
    /\ \A k \in 1..n : DocsOfFile(f)[k].status = "completed" /\ DocsOfFile(f)[k].id = DocId(f, k)

\* what the files taken so far have contributed, and how far the file in work is
FileContributions ==
    /\ \A f \in 1..Len(files) :
           f < fileIdx =>
               IF f \in FilesFailed
               THEN /\ Len(DocsOfFile(f)) = 1
                    /\ DocsOfFile(f)[1].status = "error"
               ELSE \E n \in 1..MaxPages : PageRecords(f, n)
    /\ (pc \in {"loop", "pairing_done", "sorting_done", "detecting_done", "done"} /\ fileIdx > 1) =>
           /\ recognizedPages = FirstPages(Len(recognizedPages))
           /\ (fileIdx - 1) \notin FilesFailed =>
                  (Len(recognizedPages) >= 1 /\ PageRecords(fileIdx - 1, Len(recognizedPages)))
    /\ pc \in {"call", "awaiting", "delaying"} =>
           /\ pageIdx <= pages
           /\ DocsOfFile(fileIdx) = << >>
           /\ Len(pageDocs) = pageIdx - 1
           /\ recognizedPages = FirstPages(IF pc = "call" THEN pageIdx - 1 ELSE pageIdx)

\* a recognition call of the file in work ends the file
PageFails == pc = "awaiting" /\ Len(errors') = Len(errors) + 1

PageCompletesFile == pc = "awaiting" /\ Len(errors') = Len(errors) /\ documents' # documents

\* C26: when the recognition of a page fails, the Records recognized from the
\* earlier pages of the file are dropped and no later page is attempted (the
\* next file is taken): the file contributes one placeholder error Record and no
\* completed Record; only when all its pages succeeded does a file contribute
\* one Record per page, in page order
C26_FailedPageDropsFile ==
    /\ []FileContributions
    /\ [][/\ PageFails =>
              /\ documents' = Append(documents, createErrorDocument(fileIdx, errors'[Len(errors')].error))
              /\ recognizedPages' = recognizedPages
              /\ pageDocs' = << >>
              /\ fileIdx' = fileIdx + 1
              /\ pc' = "loop"
          /\ PageCompletesFile =>
              /\ pageIdx = pages
              /\ recognizedPages = FirstPages(pages)
              /\ Len(documents') = Len(documents) + pages
              /\ SubSeq(documents', 1, Len(documents)) = documents
              /\ \A k \in 1..pages :
                     /\ documents'[Len(documents) + k].id = DocId(fileIdx, k)
                     /\ documents'[Len(documents) + k].fileName = fileIdx
                     /\ documents'[Len(documents) + k].status = "completed"
          /\ fileIdx' >= fileIdx]_vars

\* the second page of the first file failed after the first page had been
\* recognized: the placeholder is the only Record
C26_Witness ==
    /\ pc = "loop"
    /\ fileIdx = 2
    /\ recognizedPages = <<1, 2>>
    /\ errors = <<[fileName |-> 1, error |-> "fatal_error"]>>
    /\ documents = <<createErrorDocument(1, "fatal_error")>>

\* the platform of the TripSheet, or an alias of it, stands in the vendor or in
\* the description of the Invoice
PlatformNamed(invoice, tripSheet) ==
    /\ tripSheet.platform # << >>
    /\ LET names == extractPlatformKeywords(tripSheet.platform)
       IN  \E n \in 1..Len(names) :
               \/ Includes(ToLowerCase(invoice.vendor), ToLowerCase(names[n]))
               \/ Includes(ToLowerCase(invoice.description), ToLowerCase(names[n]))

SameCalendarDay(invoice, tripSheet) ==
    /\ parseDate(invoice.date).ok /\ parseDate(tripSheet.date).ok
    /\ parseDate(invoice.date).t = parseDate(tripSheet.date).t

\* C27: every Pair of pairDocuments has amounts at most 0.01 apart, or joins a
\* taxi Invoice with a TripSheet of the same calendar day whose platform is named
\* by the vendor or the description of the Invoice, and then its confidence is
\* exactly 50; there is no Pair of any other kind
C27_PairNeedsAmountOrDayAndPlatform ==
    pc = "score_paired" =>
        \A p \in 1..Len(pairs.pairs) :
            LET invoice == DocOfId(pairs.pairs[p].invoiceId)
                tripSheet == DocOfId(pairs.pairs[p].tripSheetId)
            IN  \/ Abs(invoice.amount - tripSheet.amount) <= Tolerance
                \/ /\ invoice.invoiceType = "taxi"
                   /\ SameCalendarDay(invoice, tripSheet)
                   /\ PlatformNamed(invoice, tripSheet)
                   /\ pairs.pairs[p].confidence = 50

\* a Pair of 300.00 and 219.67: amounts are not needed for a Pair
C27_Witness ==
    /\ pc = "score_paired"
    /\ documents[1].amount = Yuan(300) /\ documents[2].amount = Yuan(219) + 670
    /\ documents[1].invoiceType = "taxi"
    /\ pairs.pairs = <<[invoiceId |-> 1, tripSheetId |-> 2, confidence |-> 50]>>

\* the amounts of the type group of the Invoice d, sorted as detectAmountAnomalies
\* sorts them
SortedAmountsOf(d) ==
    LET unsorted == [k \in 1..Len(SameTypeInvoices(d)) |-> SameTypeInvoices(d)[k].amount]
    IN  StableSort(unsorted, [j, k \in 1..Len(unsorted) |-> CompareNumbers(unsorted[j], unsorted[k])])

\* C28: an Invoice whose category has exactly 2 or exactly 3 Invoices is in no
\* amount_anomaly warning, whatever the amounts: Q1 is the smallest and Q3 the
\* largest amount of the category
C28_TwoOrThreeNoAnomaly ==
    pc = "amounts_done" =>
        \A k \in 1..Len(documents) :
            Len(SameTypeInvoices(documents[k])) \in {2, 3} =>
                /\ \A w \in 1..Len(warnings) :
                       warnings[w].type = "amount_anomaly" => documents[k].id \notin Range(warnings[w].documentIds)
                /\ LET group == SameTypeInvoices(documents[k])
                       stats == calculateAmountStats(SortedAmountsOf(documents[k]))
                   IN  \A j \in 1..Len(group) : stats.q1 <= group[j].amount /\ group[j].amount <= stats.q3

\* three hotel Invoices of 100, 102 and 5000: no warning
C28_Witness ==
    /\ pc = "amounts_done"
    /\ Len(documents) = 3
    /\ \A k \in 1..3 : documents[k].invoiceType = "hotel"
    /\ {documents[k].amount : k \in 1..3} = {Yuan(100), Yuan(102), Yuan(5000)}
    /\ warnings = << >>

PlaceholderIds == {ErrorDocs[k].id : k \in 1..Len(ErrorDocs)}

\* C29: when two or more files of the batch failed, the warnings processBatch
\* returns hold exactly one duplicate warning of medium severity that names all
\* the placeholder error Records; every placeholder is an Invoice without
\* number, of amount 0 and empty date
C29_PlaceholdersAreDuplicates ==
    (pc = "done" /\ outcome = "returned" /\ Cardinality(FilesFailed) >= 2) =>
        /\ Cardinality({w \in 1..Len(warnings) :
               /\ warnings[w].type = "duplicate" /\ warnings[w].severity = "medium"
               /\ PlaceholderIds \subseteq Range(warnings[w].documentIds)}) = 1
        /\ \A k \in 1..Len(ErrorDocs) :
               /\ ErrorDocs[k].documentType = "invoice" /\ ErrorDocs[k].invoiceNumber = ""
               /\ ErrorDocs[k].amount = 0 /\ ErrorDocs[k].date = EmptyDate

\* files 1 and 3 failed, file 2 was recognized
C29_Witness ==
    /\ pc = "done" /\ outcome = "returned"
    /\ Len(files) = 3
    /\ FilesFailed = {1, 3}
    /\ \E w \in 1..Len(warnings) : warnings[w] = Warning("duplicate", <<DocId(1, 0), DocId(3, 0)>>, "medium")

PairsOf(id) ==
    {p \in 1..Len(pairs.pairs) : pairs.pairs[p].invoiceId = id \/ pairs.pairs[p].tripSheetId = id}

\* every id is in at most one Pair of the store
IdInAtMostOnePair ==
    \A k \in 1..Len(documents) : Cardinality(PairsOf(documents[k].id)) <= 1

\* C30: in the client, after a batch result was loaded and after any manual pair
\* and unpair actions, every Record id is in at most one Pair of the store, and
\* every Pair joins one Invoice (invoiceId) with one TripSheet (tripSheetId)
C30_ClientPairsWellFormed ==
    pc = "client_loaded" =>
        /\ IdInAtMostOnePair
        /\ \A p \in 1..Len(pairs.pairs) :
               /\ DocOfId(pairs.pairs[p].invoiceId).documentType = "invoice"
               /\ DocOfId(pairs.pairs[p].tripSheetId).documentType = "trip_sheet"

====
